---- MODULE Spec2Model ----
(***************************************************************************)
(* Chatty_ai: the slot-filling dialog (app/tenant_workflow.py,             *)
(* app/classes/session.py, app/utils/extractors.py), the pricing and       *)
(* availability engine (app/pricing.py) and the /dialog turn handler with  *)
(* its tool dispatcher (app/main.py, app/repo.py).                         *)
(*                                                                         *)
(* Python strings whose characters matter (slot values, LLM answers) are   *)
(* sequences of one-character strings; Python values of type Any are       *)
(* records [t, s, n]: None, a str, an int, a uuid.UUID, or a str holding a *)
(* date (an ISO date, or "next <weekday>").                                *)
(***************************************************************************)
EXTENDS Integers, Sequences, FiniteSets, TLC

VARIABLES
    slots,        \* SessionState.slots: dict key -> value (a function on its keys)
    emails,       \* number of TenantWorkflow.on_complete invocations on this session
    turns,        \* number of TenantWorkflow.handle_step calls on this session
    run,          \* the calls made on this session so far: "extracted" (handle_step only,
                  \* a value extracted on every turn), "steps" (handle_step only) or
                  \* "mixed" (set_slot was also called from outside handle_step)
    wlast,        \* the last session operation: its arguments and what it returned
    messages,     \* SessionState.messages: the Turn objects in the order they were added
    cfg,          \* PricingEngine.cfg: the tenant's settings file as loaded
    catalog,      \* PricingEngine.catalog: item id -> CatalogItem
    blocks,       \* PricingEngine.blocks: the reservation blocks of the settings file
    pin,          \* the request put to the engine: date, zip_code, req_items
    plast,        \* the last engine call: its arguments and what it returned or raised
    quoted,       \* what the first price call on the request returned, and how far the
                  \* calls went since: 1 priced, 2 another call made, 3 priced again
    ledger,       \* the admin's book of the catalog: the items loaded or added and not
                  \* deleted, as given; the ids deleted; the number of ids issued
    leads,        \* repo.leads: the Lead records in creation order
    orders,       \* repo.orders: the Order records in creation order
    din,          \* the caller of /dialog: the args the oracle extracts, the caller number
    dlast,        \* the last /dialog request: its inputs, the response, the emails sent
    nin,          \* the args put to the item resolution
    nlast,        \* the last item resolution: which _normalize_items, what it returned
    cache,        \* TenantManager._cache: tenant name -> the PricingEngine loaded for it
    files,        \* the tenants directory: tenant name -> what <name>.yaml holds
    loads,        \* how many times PricingEngine(path) was constructed, per tenant name,
                  \* and the number of item ids issued over all tenants
    tlast         \* the last HTTP request: the endpoint, the headers, the response

wvars == <<slots, emails, turns, run, wlast, messages>>

pvars == <<cfg, catalog, blocks, pin, plast, quoted, ledger>>

dvars == <<leads, orders, din, dlast, nin, nlast>>

tvars == <<cache, files, loads, tlast>>

vars == <<slots, emails, turns, run, wlast, messages, cfg, catalog, blocks, pin, plast, quoted, ledger,
          leads, orders, din, dlast, nin, nlast, cache, files, loads, tlast>>

-----------------------------------------------------------------------------
(* Bounds of the model *)

MaxTurns == 5
MaxLines == 2
MaxRecords == 2

\* the turns added to a transcript at most
MaxMessages == 2

\* the ids a catalog issues at most, the loaded ones included
MaxItems == 3

-----------------------------------------------------------------------------
(* Python values *)

NoneV == [t |-> "none", s |-> <<>>, n |-> 0]
StrV(chars) == [t |-> "str", s |-> chars, n |-> 0]
IntV(k) == [t |-> "int", s |-> <<>>, n |-> k]

IsSpace(c) == c \in {" ", "\t", "\n"}

RECURSIVE LStrip(_)
LStrip(s) == IF s # <<>> /\ IsSpace(Head(s)) THEN LStrip(Tail(s)) ELSE s

RECURSIVE RStrip(_)
RStrip(s) ==
    IF s # <<>> /\ IsSpace(s[Len(s)]) THEN RStrip(SubSeq(s, 1, Len(s) - 1)) ELSE s

\* str.strip()
Strip(s) == RStrip(LStrip(s))

LowerLetters ==
    <<"a", "b", "c", "d", "e", "f", "g", "h", "i", "j", "k", "l", "m",
      "n", "o", "p", "q", "r", "s", "t", "u", "v", "w", "x", "y", "z">>

UpperLetters ==
    <<"A", "B", "C", "D", "E", "F", "G", "H", "I", "J", "K", "L", "M",
      "N", "O", "P", "Q", "R", "S", "T", "U", "V", "W", "X", "Y", "Z">>

\* the lower-case letter of each upper-case letter
LowerOf == [c \in {UpperLetters[i] : i \in 1..26} |->
               LowerLetters[CHOOSE i \in 1..26 : UpperLetters[i] = c]]

LowerChar(c) == IF c \in DOMAIN LowerOf THEN LowerOf[c] ELSE c

\* str.lower()
Lower(s) == [i \in 1..Len(s) |-> LowerChar(s[i])]

\* Python truth value of v: `if v`, `not v`
Truthy(v) ==
    CASE v.t = "none" -> FALSE
      [] v.t = "str" -> v.s # <<>>
      [] v.t = "int" -> v.n # 0
      [] v.t \in {"uuid", "isodate", "nextday"} -> TRUE

\* str(v) as an f-string renders it
Format(v) ==
    CASE v.t = "none" -> <<"N", "o", "n", "e">>
      [] v.t = "str" -> v.s
      [] v.t = "int" -> IF v.n = 0 THEN <<"0">> ELSE <<"7">>

-----------------------------------------------------------------------------
(* app/classes/slot.py, TenantWorkflow.__init__ *)

Slot(name, prompt, required) == [name |-> name, prompt |-> prompt, required |-> required]

\* TenantWorkflow.slots, in declared order
WorkflowSlots ==
    << Slot("name", "Who am I speaking with?", TRUE),
       Slot("phone", "Can I get your phone number please?", TRUE),
       Slot("date", "What date is your event?", TRUE),
       Slot("zip", "What is the zipcode of your event?", TRUE),
       Slot("notes", "Is there anything else you'd like us to know?", FALSE) >>

SlotNames == {WorkflowSlots[i].name : i \in 1..Len(WorkflowSlots)}

\* slot_lookup[name]
slot_lookup(name) ==
    LET i == CHOOSE j \in 1..Len(WorkflowSlots) : WorkflowSlots[j].name = name
    IN  WorkflowSlots[i]

\* a list filtered by a predicate, order kept
RECURSIVE SelectNames(_, _)
SelectNames(seq, onlyRequired) ==
    IF seq = <<>> THEN <<>>
    ELSE IF onlyRequired => Head(seq).required
         THEN <<Head(seq).name>> \o SelectNames(Tail(seq), onlyRequired)
         ELSE SelectNames(Tail(seq), onlyRequired)

AllSlotNames == SelectNames(WorkflowSlots, FALSE)

\* required_slots = [s.name for s in self.slots if s.required]
required_slots == SelectNames(WorkflowSlots, TRUE)

-----------------------------------------------------------------------------
(* app/classes/session.py *)

\* dict.get(key): None when the key is absent
Get(d, key) == IF key \in DOMAIN d THEN d[key] ELSE NoneV

\* dict.get(key, default)
GetOr(d, key, default) == IF key \in DOMAIN d THEN d[key] ELSE default

\* d[key] = value
Put(d, key, value) == [k \in DOMAIN d \cup {key} |-> IF k = key THEN value ELSE d[k]]

EmptyDict == [k \in {} |-> NoneV]

\* the element of a one-element set: Only({e(x) : x \in {v}}) is e(v)
Only(S) == CHOOSE x \in S : TRUE

\* Turn(role, content)
Turn(role, content) == [role |-> role, content |-> content]

\* SessionState.add_message: the messages after the call
add_message(msgs, role, content) == Append(msgs, Turn(role, content))

\* a set_slot that forgets the blank-string test
set_slot_StoresBlank(d, key, value) ==
    IF value.t = "none" THEN d ELSE Put(d, key, value)

\* SessionState.set_slot: the slots after the call
set_slot(d, key, value) ==
    IF value.t = "none" THEN d
    ELSE IF value.t = "str" /\ Strip(value.s) = <<>> THEN d
    ELSE Put(d, key, value)

\* SessionState.all_required_filled
RECURSIVE all_required_filled(_, _)
all_required_filled(d, required) ==
    IF required = <<>> THEN TRUE
    ELSE LET v == Get(d, Head(required))
         IN  IF v.t = "none" \/ (v.t = "str" /\ Strip(v.s) = <<>>)
             THEN FALSE
             ELSE all_required_filled(d, Tail(required))

-----------------------------------------------------------------------------
(* app/utils/extractors.py *)

\* what oai.chat.completions.create answers: it raises, or message.content
LLMRaises == [raised |-> TRUE, content |-> <<>>]
LLMSays(chars) == [raised |-> FALSE, content |-> chars]

\* extract_slot_from_text(slot, text) given the LLM's answer
extract_slot_from_text(text, llm) ==
    IF Strip(text) = <<>> THEN NoneV
    ELSE IF llm.raised THEN NoneV
    ELSE LET result == Strip(llm.content)
         IN  IF result = <<>> \/ Lower(result) = <<"n", "o", "n", "e">>
             THEN NoneV
             ELSE StrV(result)

-----------------------------------------------------------------------------
(* app/tenant_workflow.py *)

\* a scan that walks every declared slot, the optional ones too
next_unfilled_slot_AllSlots(d) ==
    LET missing == {i \in 1..Len(AllSlotNames) : ~Truthy(Get(d, AllSlotNames[i]))}
    IN  IF missing = {} THEN "None"
        ELSE AllSlotNames[CHOOSE i \in missing : \A j \in missing : i <= j]

\* TenantWorkflow.next_unfilled_slot: a slot name, or "None"
RECURSIVE NextUnfilledFrom(_, _)
NextUnfilledFrom(d, names) ==
    IF names = <<>> THEN "None"
    ELSE IF ~Truthy(Get(d, Head(names))) THEN Head(names)
    ELSE NextUnfilledFrom(d, Tail(names))

next_unfilled_slot(d) == NextUnfilledFrom(d, required_slots)

\* TenantWorkflow.is_complete
is_complete(d) == \A i \in 1..Len(required_slots) : Truthy(Get(d, required_slots[i]))

\* the strings handle_step returns
NoReply == [kind |-> "none", text |-> "", name |-> <<>>]
Prompt(name) == [kind |-> "prompt", text |-> slot_lookup(name).prompt, name |-> <<>>]
Thanks(d) ==
    [kind |-> "closing", text |-> "Thanks {name}, your details have been received.",
     name |-> Format(GetOr(d, "name", StrV(<<>>)))]
ThankYou(d) ==
    [kind |-> "closing", text |-> "Thank you, {name}! We've collected everything we need.",
     name |-> Format(GetOr(d, "name", StrV(<<>>)))]

\* a handle_step that, after storing the value, asks for the same slot again
handle_step_NoRecompute(d, user_text, llm) ==
    LET next_slot == next_unfilled_slot(d)
    IN  IF next_slot = "None"
        THEN [slots |-> d, reply |-> Thanks(d), completed |-> TRUE,
              asked |-> "None", value |-> NoneV, extractor |-> FALSE]
        ELSE LET value == extract_slot_from_text(user_text, llm)
                 d2 == IF Truthy(value) THEN set_slot(d, next_slot, value) ELSE d
             IN  [slots |-> d2, reply |-> Prompt(next_slot), completed |-> FALSE,
                  asked |-> next_slot, value |-> value, extractor |-> TRUE]

\* a handle_step that gives up on the slot when the extractor finds nothing
handle_step_GivesUp(d, user_text, llm) ==
    LET next_slot == next_unfilled_slot(d)
    IN  IF next_slot = "None"
        THEN [slots |-> d, reply |-> Thanks(d), completed |-> TRUE,
              asked |-> "None", value |-> NoneV, extractor |-> FALSE]
        ELSE LET value == extract_slot_from_text(user_text, llm)
             IN  IF Truthy(value)
                 THEN LET d2 == set_slot(d, next_slot, value)
                          next2 == next_unfilled_slot(d2)
                      IN  IF next2 = "None"
                          THEN [slots |-> d2, reply |-> ThankYou(d2), completed |-> TRUE,
                                asked |-> next_slot, value |-> value, extractor |-> TRUE]
                          ELSE [slots |-> d2, reply |-> Prompt(next2), completed |-> FALSE,
                                asked |-> next_slot, value |-> value, extractor |-> TRUE]
                 ELSE [slots |-> d, reply |-> Thanks(d), completed |-> TRUE,
                       asked |-> next_slot, value |-> value, extractor |-> TRUE]

\* TenantWorkflow.handle_step(session, user_text), given the LLM's answer:
\* the slots afterwards, the reply, whether on_complete ran, the slot asked
\* and the value the extractor gave
handle_step(d, user_text, llm) ==
    LET next_slot == next_unfilled_slot(d)
    IN  IF next_slot = "None"
        THEN [slots |-> d, reply |-> Thanks(d), completed |-> TRUE,
              asked |-> "None", value |-> NoneV, extractor |-> FALSE]
        ELSE LET value == extract_slot_from_text(user_text, llm)
             IN  IF Truthy(value)
                 THEN LET d2 == set_slot(d, next_slot, value)
                          next2 == next_unfilled_slot(d2)
                      IN  IF next2 = "None"
                          THEN [slots |-> d2, reply |-> ThankYou(d2), completed |-> TRUE,
                                asked |-> next_slot, value |-> value, extractor |-> TRUE]
                          ELSE [slots |-> d2, reply |-> Prompt(next2), completed |-> FALSE,
                                asked |-> next_slot, value |-> value, extractor |-> TRUE]
                 ELSE [slots |-> d, reply |-> Prompt(next_slot), completed |-> FALSE,
                       asked |-> next_slot, value |-> value, extractor |-> TRUE]

-----------------------------------------------------------------------------
(* app/pricing.py: dates, postal codes, money *)

\* A date string: an ISO date, held as the day's proleptic ordinal
\* (date.toordinal()), or a string datetime.fromisoformat rejects.
IsoDate(ordinal) == [iso |-> TRUE, ord |-> ordinal]
NotADate == [iso |-> FALSE, ord |-> 0]

\* date.weekday(): Monday is 0
Weekday(date) == (date.ord + 6) % 7

\* PricingEngine.is_weekend, for a date fromisoformat accepts
is_weekend(date) == Weekday(date) >= 5

\* s.startswith(p)
StartsWith(s, p) == Len(p) <= Len(s) /\ SubSeq(s, 1, Len(p)) = p

\* p.replace("*", "")
RECURSIVE DropStars(_)
DropStars(p) ==
    IF p = <<>> THEN <<>>
    ELSE IF Head(p) = "*" THEN DropStars(Tail(p))
    ELSE <<Head(p)>> \o DropStars(Tail(p))

\* s[:3]
First3(s) == SubSeq(s, 1, IF Len(s) < 3 THEN Len(s) ELSE 3)

DigitChars == <<"0", "1", "2", "3", "4", "5", "6", "7", "8", "9">>

DigitSet == {DigitChars[i] : i \in 1..10}

IsDigit(c) == c \in DigitSet

DigitValue(c) == (CHOOSE i \in 1..10 : DigitChars[i] = c) - 1

\* int(s) parses: s is a non-empty string of digits
IsInt(s) == s # <<>> /\ \A i \in 1..Len(s) : IsDigit(s[i])

\* int(s)
RECURSIVE IntOf(_)
IntOf(s) ==
    IF s = <<>> THEN 0
    ELSE 10 * IntOf(SubSeq(s, 1, Len(s) - 1)) + DigitValue(s[Len(s)])

Abs(x) == IF x < 0 THEN -x ELSE x

Max(a, b) == IF a >= b THEN a ELSE b

\* round(num/den) to the nearest integer, ties to even: what round(x, 2) does
\* to an amount in cents (den > 0). Money is held exactly: prices and fees in
\* cents, unrounded intermediate amounts in hundredths of a cent.
RoundDiv(num, den) ==
    LET q == num \div den
        r == num % den
    IN  IF 2 * r < den THEN q
        ELSE IF 2 * r > den THEN q + 1
        ELSE IF q % 2 = 0 THEN q ELSE q + 1

\* int(v) of a Python value: the int, or the exception
ToInt(v) ==
    CASE v.t = "int" -> [ok |-> TRUE, n |-> v.n]
      [] v.t = "str" /\ IsInt(Strip(v.s)) -> [ok |-> TRUE, n |-> IntOf(Strip(v.s))]
      [] v.t = "none" -> [ok |-> FALSE, err |-> "TypeError",
                          msg |-> "int() argument must be a string or a number", key |-> 0]
      [] OTHER -> [ok |-> FALSE, err |-> "ValueError", msg |-> "invalid literal for int()", key |-> 0]

RECURSIVE SumSeq(_)
SumSeq(s) == IF s = <<>> THEN 0 ELSE Head(s) + SumSeq(Tail(s))

-----------------------------------------------------------------------------
(* app/pricing.py: PricingEngine *)

\* an exception: its class, its message and, for a KeyError, the key
Raised(class, msg, key) == [ok |-> FALSE, err |-> class, msg |-> msg, key |-> key]

OutsideServiceArea == Raised("ValueError", "Address outside service area", 0)

\* service_in_area over a list of prefixes
RECURSIVE AnyPrefix(_, _)
AnyPrefix(zip_code, prefixes) ==
    IF prefixes = <<>> THEN FALSE
    ELSE StartsWith(zip_code, DropStars(Head(prefixes)))
         \/ AnyPrefix(zip_code, Tail(prefixes))

\* PricingEngine.service_in_area
service_in_area(c, zip_code) == AnyPrefix(zip_code, c.service_area)

\* PricingEngine.estimate_miles, when both int() calls parse
estimate_miles(c, customer_zip) ==
    LET a == First3(customer_zip)
        b == First3(c.warehouse_zip)
    IN  IF a = b THEN 5
        ELSE IF Abs(IntOf(a) - IntOf(b)) <= 1 THEN 10
        ELSE 20

\* estimate_miles raises ValueError: the prefixes differ and one is no number
estimate_miles_raises(c, customer_zip) ==
    LET a == First3(customer_zip)
        b == First3(c.warehouse_zip)
    IN  a # b /\ (~IsInt(a) \/ ~IsInt(b))

\* CatalogItem.__init__ on the arguments of add_item: float(daily_price) of an
\* amount in cents, int(qty)
NewItem(name, daily_price, qty) ==
    Only({ IF q.ok THEN [ok |-> TRUE, item |-> [name |-> name, price |-> daily_price, qty |-> q.n]]
           ELSE q :
           q \in {ToInt(qty)} })

\* PricingEngine.add_item; new_id is what uuid.uuid4() returns
add_item(cat, new_id, name, daily_price, qty) ==
    Only({ IF ~c.ok THEN [ok |-> FALSE, exc |-> c, catalog |-> cat]
           ELSE [ok |-> TRUE, id |-> new_id,
                 catalog |-> [k \in DOMAIN cat \cup {new_id} |-> IF k = new_id THEN c.item ELSE cat[k]]] :
           c \in {NewItem(name, daily_price, qty)} })

UnknownItemId == [ok |-> FALSE, err |-> "ValueError", msg |-> "Unknown item id", key |-> 0]

\* `id in self.catalog`: the keys are uuid.UUID objects
IsKey(id, cat) == id.t = "uuid" /\ id.n \in DOMAIN cat

\* an update_item that adds the item it does not find
update_item_Upserts(cat, id, name, daily_price, qty) ==
    [ok |-> TRUE,
     catalog |-> [k \in DOMAIN cat \cup {id.n} |->
                    IF k = id.n THEN [name |-> name.s, price |-> daily_price.n, qty |-> qty.n]
                    ELSE cat[k]]]

\* PricingEngine.update_item: the three assignments in turn; int(qty) raises
\* after the first two were made
update_item(cat, id, name, daily_price, qty) ==
    IF ~IsKey(id, cat) THEN [ok |-> FALSE, exc |-> UnknownItemId, catalog |-> cat]
    ELSE Only({
        Only({
            Only({
                IF qty.t = "none" THEN [ok |-> TRUE, catalog |-> [cat EXCEPT ![id.n] = priced]]
                ELSE IF ~q.ok THEN [ok |-> FALSE, exc |-> q, catalog |-> [cat EXCEPT ![id.n] = priced]]
                ELSE [ok |-> TRUE, catalog |-> [cat EXCEPT ![id.n] = [priced EXCEPT !.qty = q.n]]] :
                q \in {ToInt(qty)} }) :
            priced \in {IF daily_price.t = "none" THEN named
                        ELSE [named EXCEPT !.price = daily_price.n]} }) :
        named \in {IF name.t = "none" THEN cat[id.n] ELSE [cat[id.n] EXCEPT !.name = name.s]} })

\* a delete_item that answers ok and leaves the item in place
delete_item_Keeps(cat, id) ==
    IF ~IsKey(id, cat) THEN [ok |-> FALSE, exc |-> UnknownItemId, catalog |-> cat]
    ELSE [ok |-> TRUE, catalog |-> cat]

\* PricingEngine.delete_item
delete_item(cat, id) ==
    IF ~IsKey(id, cat) THEN [ok |-> FALSE, exc |-> UnknownItemId, catalog |-> cat]
    ELSE [ok |-> TRUE, catalog |-> [k \in DOMAIN cat \ {id.n} |-> cat[k]]]

\* PricingEngine.list_items: the dict of each item, in the order of the
\* catalog (the order the ids were issued in)
RECURSIVE ListFrom(_, _)
ListFrom(cat, rest) ==
    IF rest = {} THEN <<>>
    ELSE LET k == CHOOSE i \in rest : \A j \in rest : i <= j
         IN  << [id |-> [t |-> "uuid", s |-> <<>>, n |-> k], name |-> cat[k].name,
                 daily_price |-> cat[k].price, qty |-> cat[k].qty] >>
             \o ListFrom(cat, rest \ {k})

list_items(cat) == ListFrom(cat, DOMAIN cat)

\* a check that counts every block of the item, whatever its date
Reserved_AnyDate(bs, date, iid) ==
    SumSeq([i \in 1..Len(bs) |-> IF bs[i].id = iid THEN bs[i].qty ELSE 0])

\* reserved[iid] after the loop over self.blocks
RECURSIVE Reserved(_, _, _)
Reserved(bs, date, iid) ==
    IF bs = <<>> THEN 0
    ELSE (IF Head(bs).date = date /\ Head(bs).id = iid THEN Head(bs).qty ELSE 0)
         + Reserved(Tail(bs), date, iid)

\* a check that skips the lines whose item is not in the catalog
RECURSIVE Shortages_SkipUnknown(_, _, _, _, _)
Shortages_SkipUnknown(cat, bs, date, req, acc) ==
    IF req = <<>> THEN [ok |-> TRUE, shortages |-> acc]
    ELSE LET iid == Head(req)[1]
             qty == Head(req)[2]
         IN  IF iid \notin DOMAIN cat THEN Shortages_SkipUnknown(cat, bs, date, Tail(req), acc)
             ELSE LET have == cat[iid].qty - Reserved(bs, date, iid)
                  IN  Shortages_SkipUnknown(cat, bs, date, Tail(req),
                          IF qty > have
                          THEN Append(acc, [id |-> iid, requested |-> qty, available |-> have])
                          ELSE acc)

\* the loop over req_items of check_availability: the shortages so far, or
\* the KeyError of self.catalog[iid]
RECURSIVE Shortages(_, _, _, _, _)
Shortages(cat, bs, date, req, acc) ==
    IF req = <<>> THEN [ok |-> TRUE, shortages |-> acc]
    ELSE LET iid == Head(req)[1]
             qty == Head(req)[2]
         IN  IF iid \notin DOMAIN cat THEN Raised("KeyError", "", iid)
             ELSE LET have == cat[iid].qty - Reserved(bs, date, iid)
                  IN  Shortages(cat, bs, date, Tail(req),
                          IF qty > have
                          THEN Append(acc, [id |-> iid, requested |-> qty, available |-> have])
                          ELSE acc)

\* PricingEngine.check_availability
check_availability(cat, bs, date, req_items) == Shortages(cat, bs, date, req_items, <<>>)

\* the first loop of price: items_detail, or the KeyError of self.catalog[iid]
RECURSIVE LineItems(_, _, _)
LineItems(cat, req, acc) ==
    IF req = <<>> THEN [ok |-> TRUE, lines |-> acc]
    ELSE LET iid == Head(req)[1]
             qty == Head(req)[2]
         IN  IF iid \notin DOMAIN cat THEN Raised("KeyError", "", iid)
             ELSE LineItems(cat, Tail(req),
                      Append(acc, [id |-> iid, name |-> cat[iid].name, qty |-> qty,
                                   unit |-> cat[iid].price, line |-> cat[iid].price * qty]))

\* the delivery bands in configured order: the first matching band's fee, or -1
RECURSIVE BandFee(_, _)
BandFee(bands, zip_code) ==
    IF bands = <<>> THEN -1
    ELSE IF StartsWith(zip_code, Head(bands).prefix) THEN Head(bands).fee
    ELSE BandFee(Tail(bands), zip_code)

\* a discount for orders above the threshold only
weekday_discount_Above(c, date, subtotal) ==
    IF subtotal > c.min_order_subtotal * 100 /\ Weekday(date) <= 3
    THEN RoundDiv(subtotal * c.weekday_pct, 10000)
    ELSE 0

\* discounts_val, in cents, of a subtotal in hundredths of a cent
weekday_discount(c, date, subtotal) ==
    IF subtotal >= c.min_order_subtotal * 100 /\ Weekday(date) <= 3
    THEN RoundDiv(subtotal * c.weekday_pct, 10000)
    ELSE 0

\* a taxable base that leaves the labor fee out
taxable_base_NoLabor(subtotal, discount, labor) == Max(subtotal - discount * 100, 0)

\* taxable, in hundredths of a cent, of a subtotal in hundredths of a cent and
\* a discount and a labor fee in cents
taxable_base(subtotal, discount, labor) == Max(subtotal - discount * 100, 0) + labor * 100

\* price from the weekend test on: every item is known, the amounts in cents
PriceKnown(c, date, zip_code, req_items, lines) ==
    LET sum      == SumSeq([i \in 1..Len(lines) |-> lines[i].line])
        \* subtotal, in hundredths of a cent
        subtotal == IF is_weekend(date) THEN sum * c.weekend_multiplier ELSE sum * 100
        discount == weekday_discount(c, date, subtotal)
        setup    == c.setup_minutes_per_item * SumSeq([i \in 1..Len(req_items) |-> req_items[i][2]])
        labor    == RoundDiv(setup * c.staff_hourly, 60)
        band     == BandFee(c.bands, zip_code)
        taxable  == taxable_base(subtotal, discount, labor)
        tax      == RoundDiv(taxable * c.tax_rate, 1000000)
    IN  IF band = -1 /\ estimate_miles_raises(c, zip_code)
        THEN Raised("ValueError", "invalid literal for int()", 0)
        ELSE LET delivery == IF band # -1 THEN band
                             ELSE c.base_fee + c.per_mile * estimate_miles(c, zip_code)
             IN  [ok |-> TRUE, line_items |-> lines, subtotal |-> RoundDiv(subtotal, 100),
                  delivery_fee |-> delivery, labor_fee |-> labor, discounts |-> discount,
                  tax |-> tax, total |-> RoundDiv(taxable + delivery * 100 + tax * 100, 100)]

\* a price that looks the items up before it tests the service area
price_ItemsFirst(c, cat, date, zip_code, req_items) ==
    LET li == LineItems(cat, req_items, <<>>)
    IN  IF ~li.ok THEN li
        ELSE IF ~service_in_area(c, zip_code) THEN OutsideServiceArea
        ELSE IF ~date.iso THEN Raised("ValueError", "Invalid isoformat string", 0)
        ELSE PriceKnown(c, date, zip_code, req_items, li.lines)

\* a price that leaves the unknown lines out of the quote
price_SkipUnknown(c, cat, date, zip_code, req_items) ==
    LET known == SelectSeq(req_items, LAMBDA x : x[1] \in DOMAIN cat)
        li == LineItems(cat, known, <<>>)
    IN  IF ~service_in_area(c, zip_code) THEN OutsideServiceArea
        ELSE IF ~date.iso THEN Raised("ValueError", "Invalid isoformat string", 0)
        ELSE PriceKnown(c, date, zip_code, known, li.lines)

\* PricingEngine.price
price(c, cat, date, zip_code, req_items) ==
    IF ~service_in_area(c, zip_code) THEN OutsideServiceArea
    ELSE LET li == LineItems(cat, req_items, <<>>)
         IN  IF ~li.ok THEN li
             ELSE IF ~date.iso THEN Raised("ValueError", "Invalid isoformat string", 0)
             ELSE PriceKnown(c, date, zip_code, req_items, li.lines)

-----------------------------------------------------------------------------
(* The session as a state machine *)

\* values a caller of set_slot passes
SetValues ==
    {NoneV, StrV(<<>>), StrV(<<" ">>), StrV(<<"A">>), IntV(0)}

\* user utterances
UserTexts == {<<" ">>, <<"h", "i">>}

\* LLM answers to the extraction prompt
LLMAnswers ==
    {LLMRaises, LLMSays(<<>>), LLMSays(<<"N", "o", "n", "e">>), LLMSays(<<" ", "A", " ">>)}

NoOp == [op |-> "new", key |-> "None", value |-> NoneV, reply |-> NoReply,
         completed |-> FALSE, extractor |-> FALSE]

\* SessionState.__init__
InitSession ==
    /\ slots = EmptyDict
    /\ emails = 0
    /\ turns = 0
    /\ run = "extracted"
    /\ wlast = NoOp
    /\ messages = <<>>

\* session.set_slot(key, value) called on the session
SetSlot ==
    \E key \in SlotNames, value \in SetValues :
        /\ slots' = set_slot(slots, key, value)
        /\ run' = "mixed"
        /\ wlast' = [op |-> "set_slot", key |-> key, value |-> value, reply |-> NoReply,
                     completed |-> FALSE, extractor |-> FALSE]
        /\ UNCHANGED <<emails, turns, messages>>
        /\ UNCHANGED pvars
        /\ UNCHANGED dvars
        /\ UNCHANGED tvars

\* workflow.handle_step(session, user_text): one user turn
HandleStep ==
    /\ turns < MaxTurns
    /\ \E user_text \in UserTexts, llm \in LLMAnswers :
        LET r == handle_step(slots, user_text, llm)
        IN  /\ slots' = r.slots
            /\ emails' = IF r.completed THEN emails + 1 ELSE emails
            /\ turns' = turns + 1
            /\ run' = IF run = "extracted" /\ ~Truthy(r.value) THEN "steps" ELSE run
            /\ wlast' = [op |-> "handle_step", key |-> r.asked, value |-> r.value,
                         reply |-> r.reply, completed |-> r.completed,
                         extractor |-> r.extractor]
            /\ UNCHANGED messages
            /\ UNCHANGED pvars
            /\ UNCHANGED dvars
            /\ UNCHANGED tvars

Next == SetSlot \/ HandleStep

\* session.add_message(role, content) called on the session
AddMessage ==
    /\ Len(messages) < MaxMessages
    /\ \E role \in {"user", "assistant"}, content \in UserTexts :
        /\ messages' = add_message(messages, role, content)
        /\ wlast' = [op |-> "add_message", key |-> "None", value |-> StrV(content),
                     reply |-> NoReply, completed |-> FALSE, extractor |-> FALSE]
        /\ UNCHANGED <<slots, emails, turns, run>>
        /\ UNCHANGED pvars
        /\ UNCHANGED dvars
        /\ UNCHANGED tvars

\* a call: user turns through handle_step, and add_message
NextTranscript == HandleStep \/ AddMessage

-----------------------------------------------------------------------------
(* The slot-filling dialog: claims *)

\* the tenant's required slots as declared
DeclaredRequired == <<"name", "phone", "date", "zip">>

\* the slot holds a value: the key is present and its value is not one the
\* workflow counts as missing (on_complete prints "(missing)" for it)
HasValue(k) == k \in DOMAIN slots /\ Truthy(slots[k])

AllRequiredHaveValues == \A i \in 1..4 : HasValue(DeclaredRequired[i])

\* every character is whitespace (the empty string too)
IsBlank(chars) == \A i \in 1..Len(chars) : chars[i] \in {" ", "\t", "\n"}

\* None, "" or a whitespace-only string
IsBlankValue(v) == v.t = "none" \/ (v.t = "str" /\ IsBlank(v.s))

\* C1: next_unfilled_slot is the first required slot, in declared order, that
\* has no value, whatever the order of filling; a prompt handle_step returns
\* is that slot's prompt; "notes" is never asked for and never blocks
\* completion.
C1_FirstUnfilledRequiredInOrder ==
    LET r == next_unfilled_slot(slots)
    IN  /\ r # "notes"
        /\ (r = "None") <=> AllRequiredHaveValues
        /\ r # "None" =>
              \E i \in 1..4 :
                  /\ DeclaredRequired[i] = r
                  /\ ~HasValue(r)
                  /\ \A j \in 1..(i - 1) : HasValue(DeclaredRequired[j])
        /\ (wlast.op = "handle_step" /\ wlast.reply.kind = "prompt") =>
              /\ r # "None"
              /\ \E i \in 1..Len(WorkflowSlots) :
                    /\ WorkflowSlots[i].name = r
                    /\ WorkflowSlots[i].required
                    /\ WorkflowSlots[i].prompt = wlast.reply.text
        /\ (wlast.op = "handle_step" /\ AllRequiredHaveValues) => wlast.reply.kind = "closing"

\* C1 witness: "date" was supplied before "name" and handle_step asked for "name"
C1_Witness ==
    /\ wlast.op = "handle_step"
    /\ HasValue("date")
    /\ ~HasValue("name")
    /\ wlast.reply = [kind |-> "prompt", text |-> "Who am I speaking with?", name |-> <<>>]

\* C2: over handle_step calls alone, on_complete has run exactly once when all
\* required slots are filled, and not at all before.
C2_OnCompleteExactlyOnce ==
    run # "mixed" => emails = (IF AllRequiredHaveValues THEN 1 ELSE 0)

\* C6: slots never maps a key to None or to a blank string; set_slot with
\* None, "" or a whitespace-only string leaves slots unchanged, so an absent key
\* stays absent and all_required_filled over a list with that key is false.
C6_NoBlankSlotValues ==
    /\ [](/\ \A k \in DOMAIN slots : ~IsBlankValue(slots[k])
          /\ \A k \in SlotNames \ DOMAIN slots :
                \A other \in SlotNames :
                    /\ ~all_required_filled(slots, <<k>>)
                    /\ ~all_required_filled(slots, <<other, k>>)
                    /\ ~all_required_filled(slots, <<k, other>>))
    /\ [][(wlast'.op = "set_slot" /\ IsBlankValue(wlast'.value)) => slots' = slots]_vars

\* C6 witness: set_slot with a whitespace-only string on an absent key of a
\* session that holds other slots
C6_Witness ==
    /\ wlast.op = "set_slot"
    /\ wlast.value = StrV(<<" ">>)
    /\ wlast.key \notin DOMAIN slots
    /\ DOMAIN slots # {}

\* C7: from a new session, with a value extracted on every turn, the k-th
\* handle_step (k = 1, 2, 3) stores the value in the k-th required slot and
\* returns the (k+1)-th prompt; the 4th stores zip, completes and returns a
\* closing message that holds the name.
C7_OneTurnPerRequiredSlot ==
    (run = "extracted" /\ turns \in 1..4) =>
        /\ wlast.op = "handle_step"
        /\ wlast.key = DeclaredRequired[turns]
        /\ wlast.value.t = "str" /\ wlast.value.s # <<>>
        /\ DOMAIN slots = {DeclaredRequired[i] : i \in 1..turns}
        /\ slots[DeclaredRequired[turns]] = wlast.value
        /\ turns < 4 =>
              /\ wlast.reply.kind = "prompt"
              /\ wlast.reply.text = slot_lookup(DeclaredRequired[turns + 1]).prompt
              /\ ~wlast.completed /\ emails = 0
        /\ turns = 4 =>
              /\ wlast.reply.kind = "closing"
              /\ wlast.reply.name = slots["name"].s
              /\ wlast.completed /\ emails = 1

\* C7 witness: the 4th turn of such a call
C7_Witness ==
    /\ run = "extracted" /\ turns = 4
    /\ wlast.reply.kind = "closing"
    /\ wlast.reply.name = <<"A">>

-----------------------------------------------------------------------------
(* The engine as a state machine *)

SeqsUpTo(S, n) == UNION {[1..k -> S] : k \in 0..n}

\* postal codes
Zip91301 == <<"9", "1", "3", "0", "1">>
Zip91403 == <<"9", "1", "4", "0", "3">>
Zip90210 == <<"9", "0", "2", "1", "0">>
Zip10001 == <<"1", "0", "0", "0", "1">>

ZipCodes == {Zip91301, Zip91403, Zip90210, Zip10001}

\* 2025-05-13 is a Tuesday, 2025-05-16 a Friday, 2025-05-17 a Saturday
Tuesday == IsoDate(739384)
Thursday == IsoDate(739386)
Friday == IsoDate(739387)
Saturday == IsoDate(739388)
Sunday == IsoDate(739389)

Dates == {Tuesday, Thursday, Friday, Saturday, Sunday, NotADate}

\* item ids (uuid values); the engine's settings file holds items 1 and 2 at most
ItemIds == {1, 2, 3}

Quantities == {1, 3}

CatalogItem(name, daily_price, qty) == [name |-> name, price |-> daily_price, qty |-> qty]

Chair == <<"F", "o", "l", "d", "i", "n", "g", " ", "C", "h", "a", "i", "r">>
Table == <<"R", "o", "u", "n", "d", " ", "T", "a", "b", "l", "e">>

\* the catalogs a settings file may hold
Catalogs ==
    {[i \in {} |-> CatalogItem(Chair, 0, 0)]}
    \cup {[i \in {1} |-> CatalogItem(Chair, 2500, q)] : q \in {2, 5}}
    \cup {[i \in {1, 2} |-> IF i = 1 THEN CatalogItem(Chair, 2500, q) ELSE CatalogItem(Table, 1299, 4)] :
            q \in {2, 5}}

Block(date, id, qty) == [date |-> date, id |-> id, qty |-> qty]

\* the reservation blocks a settings file may hold
BlockLists ==
    { <<>>,
      <<Block(Tuesday, 1, 1), Block(Saturday, 1, 2), Block(Tuesday, 1, 1), Block(Tuesday, 2, 2)>>,
      <<Block(Saturday, 2, 4), Block(Tuesday, 3, 1)>> }

\* the settings a tenant file may hold: amounts in cents, weekend_multiplier and
\* weekday_pct in percent, tax_rate in hundredths of a percent
Configs ==
    { [service_area |-> << <<"9", "1", "*">>, <<"9", "0", "2", "*">> >>,
       warehouse_zip |-> <<"9", "1", "3", "0", "3">>,
       min_order_subtotal |-> 7500, tax_rate |-> 825,
       weekend_multiplier |-> 120, weekday_pct |-> 10,
       setup_minutes_per_item |-> 2, staff_hourly |-> 2500,
       bands |-> << [prefix |-> <<"9", "1", "4">>, fee |-> 4500] >>,
       base_fee |-> 2000, per_mile |-> 150],
      [service_area |-> << <<"9", "1", "3">> >>,
       warehouse_zip |-> <<"9", "0", "2", "1", "0">>,
       min_order_subtotal |-> 0, tax_rate |-> 0,
       weekend_multiplier |-> 100, weekday_pct |-> 0,
       setup_minutes_per_item |-> 0, staff_hourly |-> 0,
       bands |-> <<>>,
       base_fee |-> 0, per_mile |-> 0] }

DefaultConfig == CHOOSE c \in Configs : c.tax_rate = 825
DefaultCatalog == CHOOSE c \in Catalogs : DOMAIN c = {1, 2} /\ c[1].qty = 5
DefaultBlocks == CHOOSE b \in BlockLists : Len(b) = 4

Requests == SeqsUpTo(ItemIds \X Quantities, MaxLines)

NoCall == [op |-> "none", result |-> [ok |-> TRUE]]
NoQuote == [phase |-> 0, result |-> [ok |-> TRUE]]
NoRequest == [date |-> Tuesday, zip_code |-> Zip91301, req_items |-> <<>>]

\* PricingEngine.__init__ on the default settings file; no request
\* the book of a catalog as loaded from the settings file
Loaded(cat) ==
    [items |-> cat, gone |-> {},
     issued |-> IF DOMAIN cat = {} THEN 0 ELSE CHOOSE k \in DOMAIN cat : \A j \in DOMAIN cat : j <= k]

InitEngine ==
    /\ cfg = DefaultConfig
    /\ catalog = DefaultCatalog
    /\ blocks = DefaultBlocks
    /\ pin = NoRequest
    /\ plast = NoCall
    /\ quoted = NoQuote
    /\ ledger = Loaded(catalog)

\* PricingEngine.__init__ on any settings file, and any request
InitAnyEngine ==
    /\ InitSession
    /\ cfg \in Configs
    /\ catalog \in Catalogs
    /\ blocks \in BlockLists
    /\ pin \in [date : Dates, zip_code : ZipCodes, req_items : Requests]
    /\ plast = NoCall
    /\ quoted = NoQuote
    /\ ledger = Loaded(catalog)

\* a check_availability that books what it is asked for
after_check_availability_Reserves(cat, bs, date, req_items) ==
    [catalog |-> cat,
     blocks |-> bs \o [i \in 1..Len(req_items) |-> Block(date, req_items[i][1], req_items[i][2])]]

\* self.catalog and self.blocks after check_availability: the method reads them
\* and writes to its locals `shortages` and `reserved` only
after_check_availability(cat, bs, date, req_items) == [catalog |-> cat, blocks |-> bs]

\* self.catalog and self.blocks after price: the method reads self.catalog and
\* self.cfg and writes to its locals only
after_price(cat, bs, date, zip_code, req_items) == [catalog |-> cat, blocks |-> bs]

\* eng.check_availability(date, req_items)
CheckAvailability ==
    /\ plast' = [op |-> "check_availability",
                 result |-> check_availability(catalog, blocks, pin.date, pin.req_items)]
    /\ catalog' = after_check_availability(catalog, blocks, pin.date, pin.req_items).catalog
    /\ blocks' = after_check_availability(catalog, blocks, pin.date, pin.req_items).blocks
    /\ quoted' = IF quoted.phase = 1 THEN [quoted EXCEPT !.phase = 2] ELSE quoted
    /\ UNCHANGED <<cfg, pin, ledger>>
    /\ UNCHANGED wvars
    /\ UNCHANGED tvars
    /\ UNCHANGED dvars

\* eng.price(date, zip_code, req_items)
Price ==
    /\ \E r \in {price(cfg, catalog, pin.date, pin.zip_code, pin.req_items)} :
          /\ plast' = [op |-> "price", result |-> r]
          /\ quoted' = CASE quoted.phase = 0 -> [phase |-> 1, result |-> r]
                         [] quoted.phase = 2 -> [quoted EXCEPT !.phase = 3]
                         [] OTHER -> quoted
    /\ catalog' = after_price(catalog, blocks, pin.date, pin.zip_code, pin.req_items).catalog
    /\ blocks' = after_price(catalog, blocks, pin.date, pin.zip_code, pin.req_items).blocks
    /\ UNCHANGED <<cfg, pin, ledger>>
    /\ UNCHANGED wvars
    /\ UNCHANGED tvars
    /\ UNCHANGED dvars

NextPricing == CheckAvailability \/ Price

\* the user turns of the transcript
UserTurns == SelectSeq(messages, LAMBDA m : m.role = "user")

\* C24: every user utterance handle_step handles is appended to the session
\* transcript: a handled turn leaves the transcript one user turn longer, the
\* turns there were in their places.
C24_HandledTurnAppended ==
    [][turns' = turns + 1 =>
          /\ Len(messages') = Len(messages) + 1
          /\ SubSeq(messages', 1, Len(messages)) = messages
          /\ messages'[Len(messages')].role = "user"]_vars

\* a turn was handled and a value stored, and the transcript is empty
C24_NothingAppended ==
    /\ wlast.op = "handle_step"
    /\ turns = 2
    /\ slots # EmptyDict
    /\ messages = <<>>

\* the last operation was a handle_step whose extractor gave no value
ExtractorFailed(w) ==
    /\ w.op = "handle_step"
    /\ w.extractor
    /\ ~Truthy(w.value)

\* C25: a handle_step whose extractor gives no value while a required slot is
\* unfilled leaves the slots as they were, does not run the completion hook and
\* returns the prompt of the slot it was asking for, the first unfilled one; a
\* failure that follows a failure returns the same prompt again.
C25_FailureReasksSameSlot ==
    [][(turns' = turns + 1 /\ ExtractorFailed(wlast')) =>
          /\ slots' = slots
          /\ emails' = emails
          /\ ~wlast'.completed
          /\ next_unfilled_slot(slots) # "None"
          /\ wlast'.key = next_unfilled_slot(slots)
          /\ wlast'.reply = Prompt(next_unfilled_slot(slots))
          /\ (ExtractorFailed(wlast) => wlast'.reply = wlast.reply)]_vars

\* three turns: the name was given, then the extractor failed twice on the
\* second slot
C25_Witness ==
    /\ ExtractorFailed(wlast)
    /\ run = "steps"
    /\ turns = 3
    /\ Truthy(Get(slots, required_slots[1]))
    /\ ~Truthy(Get(slots, required_slots[2]))
    /\ wlast.reply = Prompt(required_slots[2])

\* C27: in every session state the three completeness tests agree:
\* next_unfilled_slot is None exactly when is_complete holds, exactly when
\* all_required_filled(required_slots) holds.
C27_CompletenessTestsAgree ==
    /\ (next_unfilled_slot(slots) = "None") <=> is_complete(slots)
    /\ is_complete(slots) <=> all_required_filled(slots, required_slots)

\* every required slot holds a value that is neither None nor blank, one of
\* them the integer 0: all_required_filled holds, is_complete does not
C27_ZeroIsFilledAndUnfilled ==
    /\ wlast.op = "set_slot"
    /\ all_required_filled(slots, required_slots)
    /\ ~is_complete(slots)
    /\ next_unfilled_slot(slots) # "None"
    /\ Get(slots, next_unfilled_slot(slots)) = IntV(0)

\* the slot is present and neither None nor a blank string
HoldsValue(d, key) == all_required_filled(d, <<key>>)

\* a slot that holds a value holds one after every call
NeverBlankAgain ==
    [][\A key \in SlotNames : HoldsValue(slots, key) => HoldsValue(slots', key)]_vars

\* a session the workflow finds complete is complete after every call
CompleteStaysComplete ==
    [][is_complete(slots) => is_complete(slots')]_vars

\* handle_step on a complete session changes no slot and asks no extractor
CompleteStepIsIdle ==
    [][(turns' = turns + 1 /\ is_complete(slots)) =>
          (slots' = slots /\ ~wlast'.extractor)]_vars

\* C28: across set_slot and handle_step calls a slot that holds a value never
\* becomes absent or blank again, a complete session stays complete, and
\* handle_step on a complete session changes no slot and does not invoke the
\* extractor.
C28_FilledOnlyGrows ==
    /\ NeverBlankAgain
    /\ CompleteStaysComplete
    /\ CompleteStepIsIdle

\* a complete session was made incomplete by set_slot(key, 0), and handle_step
\* then asked the extractor for that slot again
C28_CompleteUndone ==
    /\ wlast.op = "handle_step"
    /\ wlast.extractor
    /\ emails > 0
    /\ all_required_filled(slots, required_slots)
    /\ Get(slots, wlast.key) = IntV(0)

-----------------------------------------------------------------------------
(* The pricing engine: claims *)

\* the blocks of item iid on exactly the requested date
BlocksOn(iid) == {i \in 1..Len(blocks) : blocks[i].id = iid /\ blocks[i].date = pin.date}

RECURSIVE SumQty(_)
SumQty(idx) ==
    IF idx = {} THEN 0
    ELSE LET i == CHOOSE j \in idx : TRUE IN blocks[i].qty + SumQty(idx \ {i})

\* on-hand quantity minus all the blocks of the item on that date
Available(iid) == catalog[iid].qty - SumQty(BlocksOn(iid))

UnknownLines == {i \in 1..Len(pin.req_items) : pin.req_items[i][1] \notin DOMAIN catalog}

\* the postal code starts with none of the configured prefixes ("*" left out)
OutOfArea ==
    \A i \in 1..Len(cfg.service_area) :
        LET p == SelectSeq(cfg.service_area[i], LAMBDA c : c # "*")
        IN  ~(Len(p) <= Len(pin.zip_code) /\ \A j \in 1..Len(p) : pin.zip_code[j] = p[j])

\* C3: check_availability returns exactly one record {id, requested, available}
\* for each line with requested > available, in request order, and none for
\* the other lines; available = on hand minus the sum of the item's blocks on
\* exactly that date.
C3_ShortagesExact ==
    (plast.op = "check_availability" /\ UnknownLines = {}) =>
        LET req == pin.req_items
            all == [i \in 1..Len(req) |->
                      [id |-> req[i][1], requested |-> req[i][2], available |-> Available(req[i][1])]]
        IN  /\ plast.result.ok
            /\ plast.result.shortages = SelectSeq(all, LAMBDA r : r.requested > r.available)

\* C3 witness: two blocks of the item on the date add up, one line is short
\* and another is not
C3_Witness ==
    /\ plast.op = "check_availability"
    /\ plast.result.ok
    /\ Len(pin.req_items) = 2
    /\ Len(plast.result.shortages) = 1
    /\ Cardinality(BlocksOn(plast.result.shortages[1].id)) = 2
    /\ \E i \in 1..Len(blocks) :
          blocks[i].id = plast.result.shortages[1].id /\ blocks[i].date # pin.date

\* the quantity of an item a request asks for, over all its lines
RECURSIVE Demand(_, _)
Demand(req, iid) ==
    IF req = <<>> THEN 0
    ELSE (IF Head(req)[1] = iid THEN Head(req)[2] ELSE 0) + Demand(Tail(req), iid)

\* C26: when check_availability returns no shortage, the quantity requested
\* of every item, summed over the lines of the request, is at most the
\* quantity available of that item on that date.
C26_CombinedDemandCovered ==
    (plast.op = "check_availability" /\ plast.result.ok /\ plast.result.shortages = <<>>) =>
        \A i \in 1..Len(pin.req_items) :
            Demand(pin.req_items, pin.req_items[i][1]) <= Available(pin.req_items[i][1])

\* no shortage is returned for two lines of one item that together ask for
\* more than there is
C26_Overbooked ==
    /\ plast.op = "check_availability"
    /\ plast.result.ok
    /\ plast.result.shortages = <<>>
    /\ Len(pin.req_items) = 2
    /\ pin.req_items[1][1] = pin.req_items[2][1]
    /\ pin.req_items[1][2] + pin.req_items[2][2] > Available(pin.req_items[1][1])

\* C4: a request with an item id that is not in the catalog makes
\* check_availability fail, and price (in-area postal code) fail, with the
\* error of the unknown item; no line is skipped, no partial result returned.
C4_UnknownItemFails ==
    (UnknownLines # {} /\ (plast.op = "check_availability" \/ (plast.op = "price" /\ ~OutOfArea))) =>
        /\ ~plast.result.ok
        /\ plast.result.err = "KeyError"
        /\ \E i \in UnknownLines :
              /\ plast.result.key = pin.req_items[i][1]
              /\ \A j \in UnknownLines : i <= j

\* C4 witness: check_availability failed on a request whose first line is
\* known and short and whose second line is unknown
C4_Witness ==
    /\ plast.op = "check_availability"
    /\ UnknownLines = {2}
    /\ pin.req_items[1][2] > Available(pin.req_items[1][1])
    /\ ~plast.result.ok

\* C5: a postal code outside every service-area prefix makes price fail with
\* the out-of-service-area error, whatever the date and the item list.
C5_OutOfAreaFirst ==
    (plast.op = "price" /\ OutOfArea) =>
        /\ ~plast.result.ok
        /\ plast.result.err = "ValueError"
        /\ plast.result.msg = "Address outside service area"

\* C5 witness: price rejected an out-of-area request that also has an unknown
\* item and a date that does not parse
C5_Witness ==
    /\ plast.op = "price"
    /\ OutOfArea
    /\ UnknownLines # {}
    /\ ~pin.date.iso
    /\ ~plast.result.ok

-----------------------------------------------------------------------------
(* app/main.py: the normalisation of the oracle's args *)

UuidV(k) == [t |-> "uuid", s |-> <<>>, n |-> k]

\* the str that is the ISO form of the date with ordinal k, e.g. "2025-05-13"
DateV(k) == [t |-> "isodate", s |-> <<>>, n |-> k]

\* the str "next <weekday>" of the weekday numbered w in _WEEKDAYS
NextV(w) == [t |-> "nextday", s |-> <<>>, n |-> w]

\* a or b
Or(a, b) == IF Truthy(a) THEN a ELSE b

\* the args of a Thought: None or a dict; its "items" value, a list of dicts,
\* is held apart from the scalar values kv
NoArgs == [none |-> TRUE, kv |-> EmptyDict, has_items |-> FALSE, items |-> <<>>]
Args(kv, has_items, items) == [none |-> FALSE, kv |-> kv, has_items |-> has_items, items |-> items]

\* thought.args or {}
ArgsOrEmpty(args) == IF args.none THEN Args(EmptyDict, FALSE, <<>>) ELSE args

\* \w of re, on the characters of the model
WordChars ==
    {LowerLetters[i] : i \in 1..26} \cup {UpperLetters[i] : i \in 1..26} \cup DigitSet \cup {"_"}

IsWordChar(c) == c \in WordChars

\* str.split(): the maximal runs of non-space characters
RECURSIVE Split(_, _, _)
Split(s, cur, acc) ==
    IF s = <<>> THEN (IF cur = <<>> THEN acc ELSE Append(acc, cur))
    ELSE IF IsSpace(Head(s))
         THEN Split(Tail(s), <<>>, IF cur = <<>> THEN acc ELSE Append(acc, cur))
         ELSE Split(Tail(s), Append(cur, Head(s)), acc)

\* the loop of _canon: a token longer than 3 that ends in "s" loses it
Singular(tok) ==
    IF Len(tok) > 3 /\ tok[Len(tok)] = "s" THEN SubSeq(tok, 1, Len(tok) - 1) ELSE tok

\* _canon
canon(s) ==
    LET low == Lower(s)
        sub == [i \in 1..Len(low) |->
                   IF IsWordChar(low[i]) \/ IsSpace(low[i]) THEN low[i] ELSE " "]
        toks == Split(sub, <<>>, <<>>)
    IN  [i \in 1..Len(toks) |-> Singular(toks[i])]

\* set(_canon(s))
CanonSet(s) == LET toks == canon(s) IN {toks[i] : i \in 1..Len(toks)}

\* int(v)
PyInt(v) == ToInt(v)

\* `v in eng.catalog`: the catalog's keys are uuid.UUID objects
InCatalog(v, cat) == v.t = "uuid" /\ v.n \in DOMAIN cat

\* name_to_id_exact.get(key): the dict comprehension keeps the last item of a name
ExactId(cat, key) ==
    LET ids == {k \in DOMAIN cat : Lower(cat[k].name) = key}
    IN  IF ids = {} THEN 0 ELSE CHOOSE k \in ids : \A j \in ids : j <= k

\* the fuzzy loop over catalog_tokens, in catalog order: best_id and best_score
RECURSIVE FuzzyLoop(_, _, _, _)
FuzzyLoop(cat, rest, qtokens, best) ==
    IF rest = {} THEN best
    ELSE LET cid == CHOOSE k \in rest : \A j \in rest : k <= j
             score == Cardinality(qtokens \cap CanonSet(cat[cid].name))
         IN  FuzzyLoop(cat, rest \ {cid}, qtokens,
                       IF score > best.score THEN [id |-> cid, score |-> score] ELSE best)

UnknownItem == Raised("HTTPException", "Unknown item in request", 400)

\* a fuzzy match that accepts one shared token
fuzzy_accepts_OneToken(best) == best.id # 0 /\ best.score >= 1

\* `if best_id and best_score >= 2`
fuzzy_accepts(best) == best.id # 0 /\ best.score >= 2

\* int(it.get("qty", it.get("quantity", 1))) and the append to out
Line(iid, it) ==
    Only({ IF q.ok THEN [ok |-> TRUE, line |-> <<iid, q.n>>] ELSE q :
           q \in {PyInt(GetOr(it, "qty", GetOr(it, "quantity", IntV(1))))} })

\* one pass of the loop of _normalize_items over the entry `it`
Resolve(cat, it) ==
    IF Truthy(Get(it, "id")) /\ InCatalog(Get(it, "id"), cat) THEN Line(Get(it, "id").n, it)
    ELSE Only({
        IF Truthy(v) /\ v.t # "str"
        THEN Raised("AttributeError", "object has no attribute 'strip'", 0)
        ELSE Only({
            IF nm = <<>> THEN UnknownItem
            ELSE Only({
                IF iid # 0 THEN Line(iid, it)
                ELSE Only({
                    IF fuzzy_accepts(best) THEN Line(best.id, it)
                    ELSE IF InCatalog(StrV(nm), cat) THEN Line(0, it)
                    ELSE UnknownItem :
                    best \in {FuzzyLoop(cat, DOMAIN cat, CanonSet(nm), [id |-> 0, score |-> 0])} }) :
                iid \in {ExactId(cat, Lower(nm))} }) :
            nm \in {IF Truthy(v) THEN Strip(v.s) ELSE <<>>} }) :
        v \in {Or(Get(it, "name"), Get(it, "item"))} })

RECURSIVE ResolveAll(_, _, _)
ResolveAll(cat, items_in, out) ==
    IF items_in = <<>> THEN [ok |-> TRUE, items |-> out]
    ELSE Only({ IF r.ok THEN ResolveAll(cat, Tail(items_in), Append(out, r.line)) ELSE r :
                r \in {Resolve(cat, Head(items_in))} })

\* _normalize_items: the (id, qty) lines of the request, or the exception raised
normalize_items(cat, args) ==
    IF args.has_items THEN ResolveAll(cat, args.items, <<>>)
    ELSE IF "item" \in DOMAIN args.kv /\ ("quantity" \in DOMAIN args.kv \/ "qty" \in DOMAIN args.kv)
    THEN Only({
            IF ~q.ok THEN q
            ELSE ResolveAll(cat, << [k \in {"name", "qty"} |->
                                       IF k = "name" THEN Get(args.kv, "item") ELSE IntV(q.n)] >>,
                            <<>>) :
            q \in {PyInt(Or(Or(Get(args.kv, "quantity"), Get(args.kv, "qty")), IntV(1)))} })
    ELSE [ok |-> TRUE, items |-> <<>>]

\* utils/field_normalizations.py, one pass of the loop of _normalize_items over
\* the entry `it`: the lines appended to out (one or none)
fn_Resolve(cat, it) ==
    Only({
        IF Truthy(v) /\ v.t # "str"
        THEN Raised("AttributeError", "object has no attribute 'strip'", 0)
        ELSE Only({
            IF ~q.ok THEN q
            ELSE IF name \in {Lower(cat[k].name) : k \in DOMAIN cat}
            THEN [ok |-> TRUE, lines |-> << <<ExactId(cat, name), q.n>> >>]
            ELSE Only({
                IF fuzzy_accepts(best) THEN [ok |-> TRUE, lines |-> << <<best.id, q.n>> >>]
                ELSE [ok |-> TRUE, lines |-> <<>>] :
                best \in {FuzzyLoop(cat, DOMAIN cat, CanonSet(name), [id |-> 0, score |-> 0])} }) :
            name \in {IF Truthy(v) THEN Lower(Strip(v.s)) ELSE <<>>},
            q \in {PyInt(GetOr(it, "qty", IntV(1)))} }) :
        v \in {Get(it, "name")} })

RECURSIVE fn_ResolveAll(_, _, _)
fn_ResolveAll(cat, items_in, out) ==
    IF items_in = <<>> THEN [ok |-> TRUE, items |-> out]
    ELSE Only({ IF r.ok THEN fn_ResolveAll(cat, Tail(items_in), out \o r.lines) ELSE r :
                r \in {fn_Resolve(cat, Head(items_in))} })

\* utils/field_normalizations.py, _normalize_items
fn_normalize_items(cat, args) ==
    IF args.none \/ (DOMAIN args.kv = {} /\ ~args.has_items) THEN [ok |-> TRUE, items |-> <<>>]
    ELSE IF args.has_items THEN fn_ResolveAll(cat, args.items, <<>>)
    ELSE IF "item" \in DOMAIN args.kv
    THEN Only({
            IF ~q.ok THEN q
            ELSE fn_ResolveAll(cat, << [k \in {"name", "qty"} |->
                                          IF k = "name" THEN Get(args.kv, "item") ELSE IntV(q.n)] >>,
                               <<>>) :
            q \in {PyInt(Or(Or(Get(args.kv, "quantity"), Get(args.kv, "qty")), IntV(1)))} })
    ELSE [ok |-> TRUE, items |-> <<>>]

\* "".join(ch for ch in s if ch.isdigit())
Digits(s) == SelectSeq(s, IsDigit)

\* _normalize_zip: None ([none |-> TRUE]) or the postal code
normalize_zip(args) ==
    Only({
        IF ~Truthy(z) THEN [none |-> TRUE, zip |-> <<>>]
        ELSE Only({
            IF digits # <<>>
            THEN [none |-> FALSE, zip |-> SubSeq(digits, 1, IF Len(digits) < 5 THEN Len(digits) ELSE 5)]
            ELSE [none |-> FALSE, zip |-> Format(z)] :
            digits \in {Digits(Format(z))} }) :
        z \in {Or(Or(Or(Or(Get(args.kv, "zip"), Get(args.kv, "postal")), Get(args.kv, "area")),
                     Get(args.kv, "location")), Get(args.kv, "location_prefix"))} })

\* _WEEKDAYS: the names, at the place of their number plus one
WEEKDAYS ==
    << <<"m", "o", "n", "d", "a", "y">>,
       <<"t", "u", "e", "s", "d", "a", "y">>,
       <<"w", "e", "d", "n", "e", "s", "d", "a", "y">>,
       <<"t", "h", "u", "r", "s", "d", "a", "y">>,
       <<"f", "r", "i", "d", "a", "y">>,
       <<"s", "a", "t", "u", "r", "d", "a", "y">>,
       <<"s", "u", "n", "d", "a", "y">> >>

\* w in _WEEKDAYS, _WEEKDAYS[w]
IsWeekdayName(w) == \E i \in 1..7 : WEEKDAYS[i] = w
WeekdayNumber(w) == (CHOOSE i \in 1..7 : WEEKDAYS[i] = w) - 1

NextPrefix == <<"n", "e", "x", "t", " ">>

\* s.split(" ", 1)[1] of an s that starts with "next "
AfterFirstSpace(s) == SubSeq(s, Len(NextPrefix) + 1, Len(s))

\* a _next_weekday_iso that leaves days_ahead at 0
next_weekday_iso_SameDay(target_weekday, now) ==
    IsoDate(now + ((target_weekday - Weekday(IsoDate(now)) + 7) % 7))

\* utils.field_normalizations._next_weekday_iso: days_ahead is (...) % 7 or 7
fn_next_weekday_iso(target_weekday, now) ==
    LET days_ahead == (target_weekday - Weekday(IsoDate(now)) + 7) % 7
    IN  IsoDate(now + (IF days_ahead # 0 THEN days_ahead ELSE 7))

\* _next_weekday_iso: the next day after `now` (an ordinal) that is the target weekday
next_weekday_iso(target_weekday, now) ==
    LET days_ahead == (target_weekday - Weekday(IsoDate(now)) + 7) % 7
    IN  IsoDate(now + (IF days_ahead = 0 THEN 7 ELSE days_ahead))

\* _normalize_date: the date handed to the engine; falsy when None or ""
normalize_date(ds, now) ==
    IF ~Truthy(ds) THEN [ok |-> TRUE, falsy |-> TRUE, date |-> NotADate]
    ELSE CASE ds.t = "nextday" -> [ok |-> TRUE, falsy |-> FALSE, date |-> next_weekday_iso(ds.n, now)]
           [] ds.t = "isodate" -> [ok |-> TRUE, falsy |-> FALSE, date |-> IsoDate(ds.n)]
           [] ds.t = "str" ->
                Only({ IF StartsWith(s, NextPrefix) /\ IsWeekdayName(AfterFirstSpace(s))
                       THEN [ok |-> TRUE, falsy |-> FALSE,
                             date |-> next_weekday_iso(WeekdayNumber(AfterFirstSpace(s)), now)]
                       ELSE [ok |-> TRUE, falsy |-> s = <<>>, date |-> NotADate] :
                       s \in {Strip(Lower(ds.s))} })
           [] OTHER -> Raised("AttributeError", "object has no attribute 'lower'", 0)

\* utils.field_normalizations._normalize_date
fn_normalize_date(ds, now) ==
    IF ~Truthy(ds) THEN [ok |-> TRUE, falsy |-> TRUE, date |-> NotADate]
    ELSE CASE ds.t = "nextday" -> [ok |-> TRUE, falsy |-> FALSE, date |-> fn_next_weekday_iso(ds.n, now)]
           [] ds.t = "isodate" -> [ok |-> TRUE, falsy |-> FALSE, date |-> IsoDate(ds.n)]
           [] ds.t = "str" ->
                Only({ IF StartsWith(s, NextPrefix) /\ IsWeekdayName(AfterFirstSpace(s))
                       THEN [ok |-> TRUE, falsy |-> FALSE,
                             date |-> fn_next_weekday_iso(WeekdayNumber(AfterFirstSpace(s)), now)]
                       ELSE [ok |-> TRUE, falsy |-> s = <<>>, date |-> NotADate] :
                       s \in {Strip(Lower(ds.s))} })
           [] OTHER -> Raised("AttributeError", "object has no attribute 'lower'", 0)

-----------------------------------------------------------------------------
(* app/repo.py, app/main.py: the tool dispatcher and the /dialog handler *)

T_check_availability == <<"c", "h", "e", "c", "k", "_", "a", "v", "a", "i", "l", "a", "b", "i", "l", "i", "t", "y">>
T_quote == <<"q", "u", "o", "t", "e">>
T_create_lead == <<"c", "r", "e", "a", "t", "e", "_", "l", "e", "a", "d">>
T_book == <<"b", "o", "o", "k">>
T_null == <<"n", "u", "l", "l">>

Lead(lead_id, name, phone, email, quote_id) ==
    [lead_id |-> lead_id, name |-> name, phone |-> phone, email |-> email, quote_id |-> quote_id]

Order(order_id, quote_id) == [order_id |-> order_id, quote_id |-> quote_id]

\* uuid.uuid4(): an id that no record of the list carries
FreshId(records) == Len(records) + 1

\* a create_lead that starts the list over
create_lead_Replaces(ls, name, phone, email, quote_id) ==
    << Lead(FreshId(ls), name, phone, email, quote_id) >>

\* Repo.create_lead
create_lead(ls, name, phone, email, quote_id) ==
    Append(ls, Lead(FreshId(ls), name, phone, email, quote_id))

\* Repo.create_order
create_order(os, quote_id) == Append(os, Order(FreshId(os), quote_id))

\* what _run_tool returns, and the repo it leaves
Ran(result, ls, os) == [result |-> result, leads |-> ls, orders |-> os]

\* the branch of _run_tool for check_availability
run_check_availability(cat, bs, args, now) ==
    Only({
        IF ~d.ok THEN d
        ELSE IF d.falsy THEN Raised("HTTPException", "check_availability requires 'date'", 400)
        ELSE Only({
            IF ~items.ok THEN items
            ELSE Only({
                IF ~sh.ok THEN sh
                ELSE [ok |-> TRUE, kind |-> "availability",
                      available |-> Len(sh.shortages) = 0,
                      shortages |-> sh.shortages] :
                sh \in {check_availability(cat, bs, d.date, items.items)} }) :
            items \in {normalize_items(cat, args)} }) :
        d \in {normalize_date(Or(Get(args.kv, "date"), Get(args.kv, "delivery_date")), now)} })

\* the branch of _run_tool for quote
run_quote(c, cat, bs, args, now) ==
    Only({
        IF ~d.ok THEN d
        ELSE IF d.falsy \/ z.none \/ z.zip = <<>>
        THEN Raised("HTTPException", "quote requires 'date' and a ZIP", 400)
        ELSE Only({
            IF ~items.ok THEN items
            ELSE Only({
                IF ~sh.ok THEN sh
                ELSE Only({
                    IF ~priced.ok THEN priced
                    ELSE [ok |-> TRUE, kind |-> "quote", priced |-> priced,
                          note |-> Len(sh.shortages) > 0] :
                    priced \in {price(c, cat, d.date, z.zip, items.items)} }) :
                sh \in {check_availability(cat, bs, d.date, items.items)} }) :
            items \in {normalize_items(cat, args)} }) :
        d \in {normalize_date(Or(Get(args.kv, "date"), Get(args.kv, "delivery_date")), now)},
        z \in {normalize_zip(args)} })

\* _run_tool(eng, tool, args) on the repo (ls, os), the clock reading `now`
run_tool(c, cat, bs, tool, args, now, ls, os) ==
    IF ~Truthy(tool) \/ Lower(Format(tool)) = T_null
    THEN Ran([ok |-> TRUE, kind |-> "empty"], ls, os)
    ELSE LET name == Strip(tool.s)
         IN  CASE name = T_check_availability ->
                     Ran(run_check_availability(cat, bs, args, now), ls, os)
               [] name = T_quote ->
                     Ran(run_quote(c, cat, bs, args, now), ls, os)
               [] name = T_create_lead ->
                     Ran([ok |-> TRUE, kind |-> "lead", lead_id |-> FreshId(ls)],
                         create_lead(ls,
                                     Or(Get(args.kv, "name"), StrV(<<"C", "a", "l", "l", "e", "r">>)),
                                     Or(Or(Get(args.kv, "phone"), Get(args.kv, "caller")), StrV(<<>>)),
                                     Get(args.kv, "email"),
                                     Get(args.kv, "quote_id")),
                         os)
               [] name = T_book ->
                     Ran([ok |-> TRUE, kind |-> "order", order_id |-> FreshId(os)],
                         ls,
                         create_order(os, Or(Get(args.kv, "quote_id"), StrV(<<>>))))
               [] OTHER ->
                     Ran(Raised("HTTPException", "Unknown tool", 400), ls, os)

OPENING_GREETING == "Hi, you've reached Special Events Rental, who am I speaking with?"

\* a response field that holds None
NoneR == [ok |-> TRUE, kind |-> "none"]

\* {"error": str(e)}
ErrorR(e) == [ok |-> TRUE, kind |-> "error", error |-> e]

\* what the handler hands back: a JSON body with its status, or ("raised") the
\* exception it lets through
Response(kind, status, say, tool, args, tool_result, followup_quote, exc) ==
    [kind |-> kind, status |-> status, say |-> say, tool |-> tool, args |-> args,
     tool_result |-> tool_result, followup_quote |-> followup_quote, exc |-> exc]

NoExc == [ok |-> TRUE]

\* a call of send_lead_email(subject, body): what the body holds, and whether the send raised
Email(subject, caller, name, date, body, failed) ==
    [subject |-> subject, caller |-> caller, name |-> name, date |-> date, body |-> body,
     failed |-> failed]

Done(resp, sent, ls, os) == [resp |-> resp, sent |-> sent, leads |-> ls, orders |-> os]

\* _build_reason_messages: m.model_dump() on every entry of req.messages; the
\* Turn of schemas.ReasonRequest is a dataclass with to_dict only
build_reason_messages(msgs) ==
    IF msgs = "Turn"
    THEN Raised("AttributeError", "'Turn' object has no attribute 'model_dump'", 0)
    ELSE [ok |-> TRUE]

\* a fallback that sends nothing
reason_failed_NoEmail(req, ls, os) ==
    Done(Response("error", 500, "", NoneV, NoArgs, NoneR, NoneR, NoExc), <<>>, ls, os)

\* the except branch of the reasoning phase: the email, then the 500 response
reason_failed(req, ls, os) ==
    Done(Response("error", 500, "", NoneV, NoArgs, NoneR, NoneR, NoExc),
         << Email("Incomplete lead (reasoning error)",
                  IF req.caller.t = "none" THEN StrV(<<"u", "n", "k", "n", "o", "w", "n">>)
                  ELSE req.caller,
                  NoneV, NoneV, NoArgs, req.mail_fails) >>,
         ls, os)

\* a tool phase that drops the exception of the dispatcher
tool_phase_DropsError(c, cat, bs, tool, args, now, ls, os) ==
    IF ~Truthy(tool) THEN Ran(NoneR, ls, os)
    ELSE Only({ IF ran.result.ok THEN ran ELSE Ran(NoneR, ran.leads, ran.orders) :
                ran \in {run_tool(c, cat, bs, tool, args, now, ls, os)} })

\* the tool execution phase: tool_result is None, what _run_tool returned, or
\* {"error": str(e)} for the exception it raised
tool_phase(c, cat, bs, tool, args, now, ls, os) ==
    IF ~Truthy(tool) THEN Ran(NoneR, ls, os)
    ELSE Only({ IF ran.result.ok THEN ran ELSE Ran(ErrorR(ran.result), ran.leads, ran.orders) :
                ran \in {run_tool(c, cat, bs, tool, args, now, ls, os)} })

\* a follow-up that runs the quote after every check_availability
follow_up_AfterAnyCheck(c, cat, bs, tool, tool_result, args, now, ls, os) ==
    IF tool = StrV(T_check_availability)
    THEN Only({ IF fu.result.ok THEN fu ELSE Ran(NoneR, fu.leads, fu.orders) :
                fu \in {run_tool(c, cat, bs, StrV(T_quote), args, now, ls, os)} })
    ELSE Ran(NoneR, ls, os)

\* the follow-up phase: the quote after an available check_availability, or None
follow_up(c, cat, bs, tool, tool_result, args, now, ls, os) ==
    IF /\ tool = StrV(T_check_availability)
       /\ tool_result.kind \notin {"none", "empty"}
       /\ tool_result.kind = "availability"
       /\ tool_result.available
    THEN Only({ IF fu.result.ok THEN fu ELSE Ran(NoneR, fu.leads, fu.orders) :
                fu \in {run_tool(c, cat, bs, StrV(T_quote), args, now, ls, os)} })
    ELSE Ran(NoneR, ls, os)

\* the characters json.dumps writes as \uXXXX (ensure_ascii), of the model's
NonAscii == {"é"}

\* json.dumps of one character of a str
JsonChar(c) ==
    CASE c = "\"" -> <<"\\", "\"">>
      [] c = "\\" -> <<"\\", "\\">>
      [] c = "é" -> <<"\\", "u", "0", "0", "e", "9">>
      [] OTHER -> <<c>>

\* json.dumps of the characters of a str, without the quotes around them
RECURSIVE JsonEscape(_)
JsonEscape(s) == IF s = <<>> THEN <<>> ELSE JsonChar(Head(s)) \o JsonEscape(Tail(s))

\* json.dumps(v): the text; a str that holds a date is written as it is
\* between quotes, `of` keeps which one
JsonText(v) ==
    CASE v.t = "str" -> [chars |-> <<"\"">> \o JsonEscape(v.s) \o <<"\"">>, of |-> NoneV]
      [] v.t = "int" -> [chars |-> Format(v), of |-> NoneV]
      [] v.t = "none" -> [chars |-> <<"n", "u", "l", "l">>, of |-> NoneV]
      [] OTHER -> [chars |-> <<"\"", "\"">>, of |-> v]

\* json.dumps(args, indent=2): the text of each value, under its key
json_dumps(args) ==
    [kv |-> [k \in DOMAIN args.kv |-> JsonText(args.kv[k])],
     items |-> [i \in 1..Len(args.items) |->
                  [k \in DOMAIN args.items[i] |-> JsonText(args.items[i][k])]]]

\* the lead email phase: the calls of send_lead_email
lead_email(tool, tool_result, args, mail_fails) ==
    IF tool = StrV(T_create_lead) /\ tool_result.kind \notin {"none", "empty"}
    THEN << Email("New Lead", NoneV,
                  GetOr(args.kv, "name", StrV(<<"U", "n", "k", "n", "o", "w", "n">>)),
                  GetOr(args.kv, "date", StrV(<<"N", "/", "A">>)),
                  json_dumps(args), mail_fails) >>
    ELSE <<>>

\* a tool taken as the oracle wrote it
named_tool_Raw(tool) == tool

\* the tool of the thought, None when the oracle named none: None, "" or the
\* string "null" in any case
named_tool(tool) ==
    IF Truthy(tool) /\ Lower(Format(tool)) # T_null THEN tool ELSE NoneV

\* dialog(req, request) once get_engine has returned the tenant's engine
\* (c, cat, bs); the repo is (ls, os); req holds the transcript, what the oracle
\* does when it is consulted, the X-Caller-Number header, the clock and whether
\* send_lead_email raises
dialog(c, cat, bs, ls, os, req) ==
    IF req.msgs = "empty"
    THEN Done(Response("greeting", 200, OPENING_GREETING, NoneV, NoArgs, NoneR, NoneR, NoExc),
              <<>>, ls, os)
    ELSE IF ~build_reason_messages(req.msgs).ok
    THEN Done(Response("raised", 0, "", NoneV, NoArgs, NoneR, NoneR,
                       build_reason_messages(req.msgs)),
              <<>>, ls, os)
    ELSE IF req.oracle = "raised"
    THEN reason_failed(req, ls, os)
    ELSE Only({
        Only({
            Only({
                Done(Response("reply", 200, req.say, tool, req.args, ran.result, fu.result, NoExc),
                     lead_email(tool, ran.result, args, req.mail_fails), fu.leads, fu.orders) :
                fu \in {follow_up(c, cat, bs, tool, ran.result, args, req.now,
                                  ran.leads, ran.orders)} }) :
            ran \in {tool_phase(c, cat, bs, tool, args, req.now, ls, os)} }) :
        tool \in {named_tool(req.tool)},
        args \in {ArgsOrEmpty(req.args)} })

-----------------------------------------------------------------------------
(* app/tenancy.py, app/main.py: the tenant registry and the HTTP endpoints *)

\* tenant names: two with a file in the tenants directory, one without
Acme == <<"a", "c", "m", "e">>
Bolt == <<"b", "o", "l", "t">>
Ghost == <<"g", "h", "o", "s", "t">>

\* rt.ADMIN_API_KEY
ADMIN_API_KEY == <<"s", "3", "c", "r", "e", "t">>

\* what <name>.yaml holds: the settings, inventory.items, inventory.blocks
TenantFile(c, cat, bs) == [cfg |-> c, catalog |-> cat, blocks |-> bs]

\* the tenants directory when the process starts
TenantsDir ==
    [t \in {Acme, Bolt} |->
        IF t = Acme THEN TenantFile(DefaultConfig, [i \in {1} |-> CatalogItem(Chair, 2500, 5)],
                                    << Block(Tuesday, 1, 4) >>)
        ELSE TenantFile(DefaultConfig, [i \in {2} |-> CatalogItem(Table, 1299, 4)], <<>>)]

NoEngines == [t \in {} |-> TenantFile(DefaultConfig, DefaultCatalog, <<>>)]

\* the headers of a request
Headers(tenant, did, admin_key) == [tenant |-> tenant, did |-> did, admin_key |-> admin_key]

NoHttp == [op |-> "none", headers |-> Headers(NoneV, NoneV, NoneV), tenant |-> NoneV,
           args |-> <<>>, status |-> 0, body |-> [ok |-> TRUE]]

\* TenantManager.__init__: an empty cache
InitTenantManager ==
    /\ cache = NoEngines
    /\ files = TenantsDir
    /\ loads = [of |-> [t \in {Acme, Bolt, Ghost} |-> 0], issued |-> 2]
    /\ tlast = NoHttp

\* s.replace(' ', '')
RECURSIVE DropSpaces(_)
DropSpaces(s) ==
    IF s = <<>> THEN <<>>
    ELSE IF Head(s) = " " THEN DropSpaces(Tail(s))
    ELSE <<Head(s)>> \o DropSpaces(Tail(s))

\* resolve_tenant_name with use_did: the X-Tenant header, or the called number
resolve_tenant_name(h) ==
    IF Truthy(h.tenant) THEN h.tenant
    ELSE IF Truthy(h.did) THEN StrV(DropSpaces(Strip(h.did.s)))
    ELSE NoneV

\* TenantManager.path_for
path_for(fs, tenant) ==
    IF tenant \in DOMAIN fs THEN [ok |-> TRUE, path |-> tenant]
    ELSE Raised("FileNotFoundError", "Unknown tenant", 0)

\* PricingEngine.__init__(settings_path)
PricingEngine(fs, path) ==
    [cfg |-> fs[path].cfg, catalog |-> fs[path].catalog, blocks |-> fs[path].blocks]

\* what a call of get_engine leaves: the engine is cache[tenant] when ok;
\* loaded tells that PricingEngine(path) was constructed
Got(ok, exc, c, loaded) == [ok |-> ok, exc |-> exc, cache |-> c, loaded |-> loaded]

\* a get_engine that constructs the engine on every call
tm_get_engine_Reloads(c, fs, tenant) ==
    Only({ IF ~path.ok THEN Got(FALSE, path, c, FALSE)
           ELSE Got(TRUE, NoExc,
                    [t \in DOMAIN c \cup {tenant} |->
                        IF t = tenant THEN PricingEngine(fs, path.path) ELSE c[t]],
                    TRUE) :
           path \in {path_for(fs, tenant)} })

\* TenantManager.get_engine
tm_get_engine(c, fs, tenant) ==
    IF tenant \in DOMAIN c THEN Got(TRUE, NoExc, c, FALSE)
    ELSE Only({ IF ~path.ok THEN Got(FALSE, path, c, FALSE)
                ELSE Got(TRUE, NoExc,
                         [t \in DOMAIN c \cup {tenant} |->
                             IF t = tenant THEN PricingEngine(fs, path.path) ELSE c[t]],
                         TRUE) :
                path \in {path_for(fs, tenant)} })

\* main.get_engine(request)
get_engine(c, fs, h) ==
    Only({ IF ~Truthy(t_name)
           THEN Got(FALSE, Raised("HTTPException", "Missing tenant", 400), c, FALSE)
           ELSE tm_get_engine(c, fs, t_name.s) :
           t_name \in {resolve_tenant_name(h)} })

\* PricingEngine.save: inventory.items rebuilt from the catalog, the file rewritten
save(fs, path, eng) == [fs EXCEPT ![path].catalog = eng.catalog]

\* the response of an endpoint and what the request left: the status an
\* exception becomes (HTTPException its own, any other 500), the body
Out(status, body, c, fs, loaded) ==
    [status |-> status, body |-> body, cache |-> c, files |-> fs, loaded |-> loaded]

Failed(exc, c, fs, loaded) ==
    Out(IF exc.err = "HTTPException" THEN exc.key ELSE 500, exc, c, fs, loaded)

\* an admin check that lets every key through
admin_key_ok_Any(h) == TRUE

\* request.headers.get("X-Admin-Key", "") != ADMIN_API_KEY, negated
admin_key_ok(h) == (IF h.admin_key.t = "none" THEN <<>> ELSE h.admin_key.s) = ADMIN_API_KEY

AdminKeyRequired == Raised("HTTPException", "Admin key required", 401)

\* GET /admin/inventory
admin_list_inventory(c, fs, h) ==
    IF ~admin_key_ok(h) THEN Failed(AdminKeyRequired, c, fs, FALSE)
    ELSE Only({ IF ~g.ok THEN Failed(g.exc, g.cache, fs, g.loaded)
                ELSE Out(200, [ok |-> TRUE, items |-> list_items(g.cache[resolve_tenant_name(h).s].catalog)],
                         g.cache, fs, g.loaded) :
                g \in {get_engine(c, fs, h)} })

\* POST /admin/inventory; new_id is what uuid.uuid4() returns
admin_create_item(c, fs, h, data, new_id) ==
    IF ~admin_key_ok(h) THEN Failed(AdminKeyRequired, c, fs, FALSE)
    ELSE Only({
        IF ~g.ok THEN Failed(g.exc, g.cache, fs, g.loaded)
        ELSE Only({
            Only({
                IF ~a.ok THEN Failed(a.exc, g.cache, fs, g.loaded)
                ELSE Only({
                    Out(200, [ok |-> TRUE, id |-> UuidV(new_id), name |-> data.name,
                              daily_price |-> data.daily_price, qty |-> data.qty],
                        cc, save(fs, t, cc[t]), g.loaded) :
                    cc \in {[g.cache EXCEPT ![t].catalog = a.catalog]} }) :
                a \in {add_item(g.cache[t].catalog, new_id, data.name, data.daily_price, data.qty)} }) :
            t \in {resolve_tenant_name(h).s} }) :
        g \in {get_engine(c, fs, h)} })

\* PUT /admin/inventory/{item_id}
admin_update_item(c, fs, h, item_id, data) ==
    IF ~admin_key_ok(h) THEN Failed(AdminKeyRequired, c, fs, FALSE)
    ELSE Only({
        IF ~g.ok THEN Failed(g.exc, g.cache, fs, g.loaded)
        ELSE Only({
            Only({
                Only({
                    IF ~u.ok THEN Failed(u.exc, cc, fs, g.loaded)
                    ELSE Only({
                        IF cur = <<>>
                        THEN Failed(Raised("HTTPException", "Unknown item id", 404),
                                    cc, save(fs, t, cc[t]), g.loaded)
                        ELSE Out(200, [ok |-> TRUE, item |-> cur[1]], cc, save(fs, t, cc[t]), g.loaded) :
                        cur \in {SelectSeq(list_items(cc[t].catalog), LAMBDA it : it.id = item_id)} }) :
                    cc \in {[g.cache EXCEPT ![t].catalog = u.catalog]} }) :
                u \in {update_item(g.cache[t].catalog, item_id, data.name, data.daily_price, data.qty)} }) :
            t \in {resolve_tenant_name(h).s} }) :
        g \in {get_engine(c, fs, h)} })

\* DELETE /admin/inventory/{item_id}
admin_delete_item(c, fs, h, item_id) ==
    IF ~admin_key_ok(h) THEN Failed(AdminKeyRequired, c, fs, FALSE)
    ELSE Only({
        IF ~g.ok THEN Failed(g.exc, g.cache, fs, g.loaded)
        ELSE Only({
            Only({
                IF ~d.ok THEN Failed(d.exc, g.cache, fs, g.loaded)
                ELSE Only({
                    Out(200, [ok |-> TRUE, deleted |-> item_id], cc, save(fs, t, cc[t]), g.loaded) :
                    cc \in {[g.cache EXCEPT ![t].catalog = d.catalog]} }) :
                d \in {delete_item(g.cache[t].catalog, item_id)} }) :
            t \in {resolve_tenant_name(h).s} }) :
        g \in {get_engine(c, fs, h)} })

\* POST /check_availability
http_check_availability(c, fs, h, date, req_items) ==
    Only({
        IF ~g.ok THEN Failed(g.exc, g.cache, fs, g.loaded)
        ELSE Only({
            Only({
                IF ~sh.ok THEN Failed(sh, g.cache, fs, g.loaded)
                ELSE Out(200, [ok |-> TRUE, available |-> Len(sh.shortages) = 0,
                               shortages |-> sh.shortages],
                         g.cache, fs, g.loaded) :
                sh \in {check_availability(eng.catalog, eng.blocks, date, req_items)} }) :
            eng \in {g.cache[resolve_tenant_name(h).s]} }) :
        g \in {get_engine(c, fs, h)} })

\* POST /quote
http_quote(c, fs, h, date, zip_code, req_items) ==
    Only({
        IF ~g.ok THEN Failed(g.exc, g.cache, fs, g.loaded)
        ELSE Only({
            Only({
                IF ~sh.ok THEN Failed(sh, g.cache, fs, g.loaded)
                ELSE Only({
                    IF ~priced.ok THEN Failed(priced, g.cache, fs, g.loaded)
                    ELSE Out(IF Len(sh.shortages) > 0 THEN 206 ELSE 200,
                             [ok |-> TRUE, priced |-> priced, note |-> Len(sh.shortages) > 0],
                             g.cache, fs, g.loaded) :
                    priced \in {price(eng.cfg, eng.catalog, date, zip_code, req_items)} }) :
                sh \in {check_availability(eng.catalog, eng.blocks, date, req_items)} }) :
            eng \in {g.cache[resolve_tenant_name(h).s]} }) :
        g \in {get_engine(c, fs, h)} })

-----------------------------------------------------------------------------
(* The /dialog endpoint as a state machine *)

\* an entry of args["items"]
Entry(name, qty) == [k \in {"name", "qty"} |-> IF k = "name" THEN StrV(name) ELSE IntV(qty)]

\* the dates, postal codes and item lists the oracle extracts from a caller
ArgDates == {NoneV, DateV(Tuesday.ord), NextV(5), StrV(<<"s", "o", "o", "n">>)}
ArgZips == {NoneV, StrV(<<"C", "A", " ", "9", "1", "3", "0", "1", "-", "1", "2", "3", "4">>), StrV(Zip10001)}
ArgItems ==
    { <<>>,
      << Entry(<<"f", "o", "l", "d", "i", "n", "g", " ", "c", "h", "a", "i", "r">>, 2) >>,
      << Entry(<<"w", "h", "i", "t", "e", " ", "f", "o", "l", "d", "i", "n", "g", " ", "c", "h", "a", "i", "r", "s">>, 6) >>,
      << Entry(<<"t", "e", "n", "t">>, 1) >> }

\* the args of a caller who asks to be called back
LeadArgs ==
    { Args([k \in {"name", "phone", "date", "city", "email"} |->
               CASE k = "name" -> StrV(<<"A", "l">>)
                 [] k = "phone" -> StrV(<<"8", "1", "8">>)
                 [] k = "date" -> DateV(Tuesday.ord)
                 [] k = "city" -> StrV(<<"L", "A">>)
                 [] OTHER -> StrV(<<"a", "@", "b">>)],
           FALSE, <<>>),
      Args([k \in {"name", "phone"} |->
               IF k = "name" THEN StrV(<<"Z", "o", "é">>) ELSE StrV(<<"8", "1", "8">>)],
           FALSE, <<>>),
      Args([k \in {"name", "caller"} |->
               IF k = "name" THEN StrV(<<>>) ELSE StrV(<<"8", "1", "8">>)],
           FALSE, <<>>) }

\* thought.args: None, or a dict with the keys the oracle found a value for
DialogArgs ==
    {NoArgs} \cup LeadArgs \cup
    { Args([k \in {x \in {"date", "zip"} : (IF x = "date" THEN d ELSE z) # NoneV} |->
               IF k = "date" THEN d ELSE z],
           items # <<>>, items) :
        d \in ArgDates, z \in ArgZips, items \in ArgItems }

\* the X-Caller-Number header: absent, or the number
CallerNumbers == {NoneV, StrV(<<"8", "1", "8", "5", "5", "5", "1", "2", "3", "4">>)}

\* thought.tool
Tools ==
    {NoneV, StrV(T_null), StrV(<<"N", "u", "l", "l">>), StrV(T_check_availability), StrV(<<" ">> \o T_check_availability),
     StrV(T_quote), StrV(T_create_lead), StrV(T_book), StrV(<<"r", "e", "f", "u", "n", "d">>)}

\* req.messages: empty, Turn objects as schemas.ReasonRequest declares them, or
\* objects that provide model_dump()
Transcripts == {"empty", "Turn", "model"}

\* datetime.now(): the day of the call, as an ordinal
Clock == {Tuesday.ord, Saturday.ord}

\* the oracle's say: with a tool, and when it asks the caller instead
Say == "One moment."
Clarify == "Round or rectangular?"

\* the oracle on a transcript: it raises, or it returns a Thought that names one
\* of Tools
Oracle(outcome, tool) ==
    [outcome |-> outcome, tool |-> tool,
     say |-> IF outcome = "raised" THEN "" ELSE IF tool = NoneV THEN Clarify ELSE Say]
Oracles == {Oracle("raised", NoneV)} \cup {Oracle("thought", tool) : tool \in Tools}

\* what the oracle would do on the transcripts the handler does not take to it
Unasked ==
    {Oracle("raised", NoneV), Oracle("thought", StrV(T_create_lead)), Oracle("thought", StrV(T_book))}

\* the requests of a caller: the oracle is consulted once line 65 has passed;
\* send_lead_email is reached, and may raise, only after the oracle raised or
\* named create_lead
DialogRequests ==
    [msgs : {"empty", "Turn"}, oracle : Unasked, mail_fails : {FALSE}]
    \cup {q \in [msgs : {"model"}, oracle : Oracles, mail_fails : BOOLEAN] :
             q.mail_fails => (q.oracle.outcome = "raised" \/ q.oracle.tool = StrV(T_create_lead))}

NoTurn == [msgs |-> "none", oracle |-> "none", tool |-> NoneV, say |-> "", mail_fails |-> FALSE,
           resp |-> Response("none", 0, "", NoneV, NoArgs, NoneR, NoneR, NoExc),
           sent |-> <<>>, leads |-> <<>>, orders |-> <<>>]

\* Repo.__init__; no caller yet
InitRepo ==
    /\ leads = <<>>
    /\ orders = <<>>
    /\ din = [args |-> NoArgs, caller |-> NoneV, now |-> Tuesday.ord]
    /\ dlast = NoTurn
    /\ nin = NoArgs
    /\ nlast = NoCall
    /\ InitTenantManager

\* a caller whose utterances hold any of the args
InitDialog ==
    /\ InitSession
    /\ InitEngine
    /\ leads = <<>>
    /\ orders = <<>>
    /\ din \in [args : DialogArgs, caller : CallerNumbers, now : Clock]
    /\ dlast = NoTurn
    /\ nin = NoArgs
    /\ nlast = NoCall
    /\ InitTenantManager

\* POST /dialog: one turn of the caller; dlast keeps the request, the response
\* and the repo before the turn, with oracle "none" when the handler answered
\* or raised before it consulted the oracle
Dialog ==
    /\ Len(leads) + Len(orders) < MaxRecords
    /\ \E q \in DialogRequests :
        \E r \in {dialog(cfg, catalog, blocks, leads, orders,
                         [msgs |-> q.msgs, oracle |-> q.oracle.outcome, say |-> q.oracle.say,
                          tool |-> q.oracle.tool, args |-> din.args, caller |-> din.caller,
                          mail_fails |-> q.mail_fails, now |-> din.now])} :
            /\ leads' = r.leads
            /\ orders' = r.orders
            /\ dlast' = [msgs |-> q.msgs,
                         oracle |-> IF r.resp.kind \in {"greeting", "raised"} THEN "none"
                                    ELSE q.oracle.outcome,
                         tool |-> q.oracle.tool, say |-> q.oracle.say,
                         mail_fails |-> q.mail_fails, resp |-> r.resp, sent |-> r.sent,
                         leads |-> leads, orders |-> orders]
            /\ UNCHANGED <<cfg, catalog, blocks, pin, plast, quoted, ledger, din, nin, nlast>>
            /\ UNCHANGED wvars
            /\ UNCHANGED tvars

NextDialog == Dialog

SpecDialog == InitDialog /\ [][NextDialog]_vars

\* the last call was a price call that returned a quote
Priced == plast.op = "price" /\ plast.result.ok

\* the sum of unit price x quantity over the requested lines, in cents
LineSum ==
    SumSeq([i \in 1..Len(pin.req_items) |->
              catalog[pin.req_items[i][1]].price * pin.req_items[i][2]])

\* the subtotal after the weekend multiplier, in hundredths of a cent
Subtotal100 ==
    IF Weekday(pin.date) \in {5, 6} THEN LineSum * cfg.weekend_multiplier ELSE LineSum * 100

\* C12: a quote holds the weekday discount exactly when the subtotal after the
\* weekend multiplier is at least the minimum-order threshold (equal counts)
\* and the date is a Monday, Tuesday, Wednesday or Thursday; the discount is
\* then the weekday percentage of that subtotal rounded to cents, and it is 0
\* otherwise, on every Friday, Saturday and Sunday in particular.
C12_WeekdayDiscountGate ==
    Priced =>
        LET qualifies == /\ Subtotal100 >= cfg.min_order_subtotal * 100
                         /\ Weekday(pin.date) \in {0, 1, 2, 3}
        IN  /\ qualifies => plast.result.discounts = RoundDiv(Subtotal100 * cfg.weekday_pct, 10000)
            /\ ~qualifies => plast.result.discounts = 0
            /\ Weekday(pin.date) \in {4, 5, 6} => plast.result.discounts = 0

\* C12 witness: a Thursday quote whose subtotal is exactly the threshold got
\* the discount
C12_Witness ==
    /\ Priced
    /\ pin.date = Thursday
    /\ cfg.min_order_subtotal > 0
    /\ Subtotal100 = cfg.min_order_subtotal * 100
    /\ plast.result.discounts = 750

\* C13: in every quote, subtotal is the sum of unit price x quantity over the
\* lines, times the weekend multiplier on a Saturday or Sunday (100.00 at 1.2
\* gives 120.00); taxable = max(subtotal - discount, 0) + labor fee; tax is
\* taxable x tax rate rounded to cents; total is taxable + delivery fee + tax
\* rounded to cents.
C13_QuoteArithmetic ==
    Priced =>
        LET r == plast.result
            taxable == Max(Subtotal100 - r.discounts * 100, 0) + r.labor_fee * 100
        IN  /\ r.subtotal = RoundDiv(Subtotal100, 100)
            /\ Weekday(pin.date) \notin {5, 6} => r.subtotal = LineSum
            /\ (LineSum = 10000 /\ cfg.weekend_multiplier = 120 /\ pin.date = Saturday) =>
                  r.subtotal = 12000
            /\ r.tax = RoundDiv(taxable * cfg.tax_rate, 1000000)
            /\ r.total = RoundDiv(taxable + r.delivery_fee * 100 + r.tax * 100, 100)

\* C13 witness: a Saturday quote of lines that sum to 100.00 at multiplier 1.2,
\* with a labor fee, a delivery fee and a tax
C13_Witness ==
    /\ Priced
    /\ pin.date = Saturday
    /\ LineSum = 10000
    /\ cfg.weekend_multiplier = 120
    /\ plast.result.subtotal = 12000
    /\ plast.result.labor_fee > 0
    /\ plast.result.delivery_fee > 0
    /\ plast.result.tax > 0
    /\ plast.result.total > plast.result.subtotal + plast.result.delivery_fee

-----------------------------------------------------------------------------
(* The catalog under the admin operations, as a state machine *)

\* the arguments of add_item: name, daily_price in cents, qty
AddInputs ==
    { [name |-> Chair, daily_price |-> 2500, qty |-> IntV(4)],
      [name |-> Table, daily_price |-> 1299, qty |-> StrV(<<"7">>)],
      [name |-> Chair, daily_price |-> 2500, qty |-> NoneV] }

\* the optional arguments of update_item
UpdateInputs ==
    { [name |-> NoneV, daily_price |-> NoneV, qty |-> NoneV],
      [name |-> StrV(Table), daily_price |-> NoneV, qty |-> NoneV],
      [name |-> NoneV, daily_price |-> IntV(1299), qty |-> IntV(1)] }

\* the ids an admin passes: every id the catalog may issue and one it never
\* does, as UUID values, and an id as its text
IdArgs == {[t |-> "uuid", s |-> <<>>, n |-> k] : k \in 1..(MaxItems + 1)} \cup {StrV(<<"0", "0", "0", "1">>)}

InitCatalog ==
    /\ InitSession
    /\ InitRepo
    /\ cfg = DefaultConfig
    /\ catalog \in {[i \in {} |-> CatalogItem(Chair, 0, 0)], DefaultCatalog}
    /\ blocks = <<>>
    /\ pin = NoRequest
    /\ plast = NoCall
    /\ quoted = NoQuote
    /\ ledger = Loaded(catalog)

\* eng.add_item(name, daily_price, qty); uuid.uuid4() returns an id that no
\* item ever had
AddItem ==
    /\ ledger.issued < MaxItems
    /\ \E a \in AddInputs :
        \E r \in {add_item(catalog, ledger.issued + 1, a.name, a.daily_price, a.qty)} :
            /\ catalog' = r.catalog
            /\ plast' = [op |-> "add_item", id |-> NoneV, args |-> a,
                         result |-> [k \in DOMAIN r \ {"catalog"} |-> r[k]]]
            /\ ledger' =
                 IF a.qty.t = "none" THEN ledger
                 ELSE [ledger EXCEPT
                         !.issued = @ + 1,
                         !.items = [k \in DOMAIN @ \cup {ledger.issued + 1} |->
                                      IF k = ledger.issued + 1
                                      THEN [name |-> a.name, price |-> a.daily_price,
                                            qty |-> IF a.qty.t = "int" THEN a.qty.n
                                                    ELSE IntOf(a.qty.s)]
                                      ELSE @[k]]]
    /\ UNCHANGED <<cfg, blocks, pin, quoted>>
    /\ UNCHANGED wvars
    /\ UNCHANGED tvars
    /\ UNCHANGED dvars

\* eng.update_item(id, name, daily_price, qty)
UpdateItem ==
    /\ \E id \in IdArgs, u \in UpdateInputs :
        \E r \in {update_item(catalog, id, u.name, u.daily_price, u.qty)} :
            /\ catalog' = r.catalog
            /\ plast' = [op |-> "update_item", id |-> id, args |-> u,
                         result |-> [k \in DOMAIN r \ {"catalog"} |-> r[k]]]
            /\ ledger' =
                 IF id.t = "uuid" /\ id.n \in DOMAIN ledger.items
                 THEN [ledger EXCEPT !.items[id.n] =
                         [name |-> IF u.name.t = "none" THEN @.name ELSE u.name.s,
                          price |-> IF u.daily_price.t = "none" THEN @.price ELSE u.daily_price.n,
                          qty |-> IF u.qty.t = "none" THEN @.qty ELSE u.qty.n]]
                 ELSE ledger
    /\ UNCHANGED <<cfg, blocks, pin, quoted>>
    /\ UNCHANGED wvars
    /\ UNCHANGED tvars
    /\ UNCHANGED dvars

\* eng.delete_item(id)
DeleteItem ==
    /\ \E id \in IdArgs :
        \E r \in {delete_item(catalog, id)} :
            /\ catalog' = r.catalog
            /\ plast' = [op |-> "delete_item", id |-> id, args |-> NoneV,
                         result |-> [k \in DOMAIN r \ {"catalog"} |-> r[k]]]
            /\ ledger' =
                 IF id.t = "uuid" /\ id.n \in DOMAIN ledger.items
                 THEN [ledger EXCEPT !.items = [k \in DOMAIN @ \ {id.n} |-> @[k]],
                                     !.gone = @ \cup {id.n}]
                 ELSE ledger
    /\ UNCHANGED <<cfg, blocks, pin, quoted>>
    /\ UNCHANGED wvars
    /\ UNCHANGED tvars
    /\ UNCHANGED dvars

\* eng.list_items()
ListItems ==
    /\ plast' = [op |-> "list_items", id |-> NoneV, args |-> NoneV,
                 result |-> [ok |-> TRUE, items |-> list_items(catalog)]]
    /\ UNCHANGED <<cfg, catalog, blocks, pin, quoted, ledger>>
    /\ UNCHANGED wvars
    /\ UNCHANGED tvars
    /\ UNCHANGED dvars

NextCatalog == AddItem \/ UpdateItem \/ DeleteItem \/ ListItems

SpecCatalog == InitCatalog /\ [][NextCatalog]_vars

-----------------------------------------------------------------------------
(* The catalog under the admin operations: claims *)

\* the ids list_items shows
Listed == {list_items(catalog)[i].id.n : i \in 1..Len(list_items(catalog))}

\* the dict list_items shows for the id
ListedAs(k) ==
    LET l == list_items(catalog)
    IN  l[CHOOSE i \in 1..Len(l) : l[i].id.n = k]

\* C17: list_items shows exactly the items loaded or added and not deleted
\* since, each once; an item is there with the name, price and quantity given,
\* under a new id, right after add_item returned the id, and is not there
\* after delete_item of its id.
C17_ListIsAddedMinusDeleted ==
    /\ Listed = DOMAIN ledger.items
    /\ Listed \cap ledger.gone = {}
    /\ Len(list_items(catalog)) = Cardinality(Listed)
    /\ \A k \in Listed :
          /\ ListedAs(k).name = ledger.items[k].name
          /\ ListedAs(k).daily_price = ledger.items[k].price
          /\ ListedAs(k).qty = ledger.items[k].qty
    /\ (plast.op = "add_item" /\ plast.result.ok) =>
          /\ plast.result.id \in Listed
          /\ ListedAs(plast.result.id).name = plast.args.name
          /\ ListedAs(plast.result.id).daily_price = plast.args.daily_price
          /\ ListedAs(plast.result.id).qty = ToInt(plast.args.qty).n
          /\ plast.result.id \notin ledger.gone
    /\ (plast.op = "delete_item" /\ plast.result.ok) => plast.id.n \notin Listed
    /\ (plast.op = "list_items") => plast.result.items = list_items(catalog)

\* C17 witness: an item was added after another was deleted, and the list
\* holds the new one and a loaded one, not the deleted one
C17_Witness ==
    /\ plast.op = "add_item"
    /\ plast.result.ok
    /\ plast.result.id = 3
    /\ ledger.gone = {1}
    /\ Listed = {2, 3}

\* C18: update_item and delete_item with an id that is not in the catalog,
\* never added or already deleted, raise the unknown-item error and leave the
\* catalog as it was.
C18_UnknownIdRejected ==
    [][(plast'.op \in {"update_item", "delete_item"} /\ ~IsKey(plast'.id, catalog)) =>
          /\ plast'.result = [ok |-> FALSE, exc |-> UnknownItemId]
          /\ catalog' = catalog]_vars

\* C18 witness: delete_item of an id deleted before was refused
C18_Witness ==
    /\ plast.op = "delete_item"
    /\ plast.id.t = "uuid"
    /\ plast.id.n \in ledger.gone
    /\ ~plast.result.ok
    /\ plast.result.exc.msg = "Unknown item id"

-----------------------------------------------------------------------------
(* The item resolution as a state machine *)

ResinChair == <<"R", "e", "s", "i", "n", " ", "F", "o", "l", "d", "i", "n", "g", " ", "C", "h", "a", "i", "r", " ", "(", "W", "h", "i", "t", "e", ")">>
ResinTable == <<"W", "h", "i", "t", "e", " ", "R", "e", "s", "i", "n", " ", "T", "a", "b", "l", "e">>

\* the queries of a caller
Q_WhiteResinChairs == <<"w", "h", "i", "t", "e", " ", "r", "e", "s", "i", "n", " ", "c", "h", "a", "i", "r", "s">>
Q_Chairs == <<"c", "h", "a", "i", "r", "s">>
Q_ExactName == <<" ", "R", "E", "S", "I", "N", " ", "F", "O", "L", "D", "I", "N", "G", " ", "C", "H", "A", "I", "R", " ", "(", "W", "H", "I", "T", "E", ")", " ">>
Q_RoundTables == <<"R", "o", "u", "n", "d", " ", "t", "a", "b", "l", "e", "s", "!">>
Q_Tent == <<"t", "e", "n", "t">>

\* str(id) of the catalog key k, shortened
UuidText(k) == <<"0", "0", "0", DigitChars[k + 1], "-", "0", "0", "0", "0">>

\* a key that is left out of a dict
Absent == [t |-> "absent", s |-> <<>>, n |-> 0]

\* the dict of the keys whose value is not Absent
Dict(d) == [k \in {k \in DOMAIN d : d[k] # Absent} |-> d[k]]

\* an entry of args["items"]
ItemEntry(id, name, qty) ==
    Dict([k \in {"id", "name", "qty"} |->
             CASE k = "id" -> id [] k = "name" -> name [] OTHER -> qty])

\* the single-item form of args
SingleItem(item, quantity, qty) ==
    Args(Dict([k \in {"item", "quantity", "qty"} |->
                  CASE k = "item" -> item [] k = "quantity" -> quantity [] OTHER -> qty]),
         FALSE, <<>>)

ItemCatalogs ==
    { [i \in {1} |-> CatalogItem(ResinChair, 2500, 5)],
      [i \in {1, 2} |-> IF i = 1 THEN CatalogItem(ResinChair, 2500, 5)
                        ELSE CatalogItem(Table, 1299, 4)],
      [i \in {1, 2, 3} |-> CASE i = 1 -> CatalogItem(Table, 1299, 4)
                             [] i = 2 -> CatalogItem(ResinTable, 1299, 4)
                             [] OTHER -> CatalogItem(ResinChair, 2500, 5)] }

ItemQueries == {Q_WhiteResinChairs, Q_Chairs, Q_ExactName, Q_RoundTables, Q_Tent, UuidText(1)}

\* an id of the catalog as a UUID and as its text, and an id of no item
EntryIds == {Absent, UuidV(1), UuidV(7), StrV(UuidText(1))}

Entries ==
    {ItemEntry(id, name, qty) :
        id \in EntryIds, name \in {Absent} \cup {StrV(q) : q \in ItemQueries}, qty \in {Absent, IntV(3)}}

\* the entries of the longer lists
ListEntries ==
    {ItemEntry(Absent, StrV(Q_WhiteResinChairs), IntV(3)), ItemEntry(Absent, StrV(Q_Chairs), Absent),
     ItemEntry(UuidV(1), Absent, Absent), ItemEntry(Absent, StrV(Q_RoundTables), IntV(3))}

ItemArgs ==
    {NoArgs, Args(EmptyDict, FALSE, <<>>)}
    \cup {Args(EmptyDict, TRUE, <<it>>) : it \in Entries}
    \cup {Args(EmptyDict, TRUE, items) : items \in SeqsUpTo(ListEntries, MaxLines)}
    \cup {SingleItem(StrV(q), quantity, qty) :
            q \in ItemQueries, quantity \in {Absent, IntV(2)}, qty \in {Absent, IntV(4)}}

InitItems ==
    /\ InitSession
    /\ cfg = DefaultConfig
    /\ catalog \in ItemCatalogs
    /\ blocks = <<>>
    /\ pin = NoRequest
    /\ plast = NoCall
    /\ quoted = NoQuote
    /\ ledger = Loaded(catalog)
    /\ leads = <<>>
    /\ orders = <<>>
    /\ din = [args |-> NoArgs, caller |-> NoneV, now |-> Tuesday.ord]
    /\ dlast = NoTurn
    /\ nin \in ItemArgs
    /\ nlast = NoCall
    /\ InitTenantManager

\* main._normalize_items(eng, args), as _run_tool calls it
NormalizeItems ==
    /\ nlast' = [op |-> "normalize_items", result |-> normalize_items(catalog, ArgsOrEmpty(nin))]
    /\ UNCHANGED <<leads, orders, din, dlast, nin>>
    /\ UNCHANGED wvars
    /\ UNCHANGED tvars
    /\ UNCHANGED pvars

\* utils.field_normalizations._normalize_items(eng, args)
FieldNormalizeItems ==
    /\ nlast' = [op |-> "field_normalizations", result |-> fn_normalize_items(catalog, nin)]
    /\ UNCHANGED <<leads, orders, din, dlast, nin>>
    /\ UNCHANGED wvars
    /\ UNCHANGED tvars
    /\ UNCHANGED pvars

NextItems == NormalizeItems \/ FieldNormalizeItems

SpecItems == InitItems /\ [][NextItems]_vars

-----------------------------------------------------------------------------
(* The item resolution: claims *)

\* the entries put to the resolution: args["items"], or the one entry of the
\* single-item form
InputEntries ==
    IF nin.has_items THEN nin.items
    ELSE IF "item" \in DOMAIN nin.kv
    THEN << [k \in {"name"} |-> nin.kv["item"]] >>
    ELSE <<>>

\* the ids of the items whose name is the query, whatever the case
SameName(nm) == {k \in DOMAIN catalog : Lower(catalog[k].name) = Lower(Strip(nm))}

\* the size of the token-set intersection of the query and the name of item k
Overlap(nm, k) == Cardinality(CanonSet(nm) \cap CanonSet(catalog[k].name))

\* the largest overlap of the query with a catalog name
MaxOverlap(nm) ==
    LET sizes == {Overlap(nm, k) : k \in DOMAIN catalog}
    IN  CHOOSE m \in sizes : \A n \in sizes : n <= m

\* one entry that holds a name and no id, and the name is no catalog name; the
\* single-item form with a quantity counts
OneFuzzyName ==
    /\ nlast.op \in {"normalize_items", "field_normalizations"}
    /\ Len(InputEntries) = 1
    /\ "id" \notin DOMAIN InputEntries[1]
    /\ "name" \in DOMAIN InputEntries[1]
    /\ SameName(InputEntries[1]["name"].s) = {}
    /\ (nin.has_items \/ DOMAIN nin.kv # {"item"})

\* C14: a name that is no catalog name, whatever the case, resolves exactly
\* when its largest token-set overlap with a catalog name is at least 2, and
\* then to an item of that overlap; with "Resin Folding Chair (White)" in the
\* catalog "white resin chairs" resolves to it and "chairs" to nothing.
C14_FuzzyNeedsTwoTokens ==
    OneFuzzyName =>
        LET nm == InputEntries[1]["name"].s
            resolved == nlast.result.ok /\ Len(nlast.result.items) = 1
        IN  /\ resolved <=> MaxOverlap(nm) >= 2
            /\ resolved => Overlap(nm, nlast.result.items[1][1]) = MaxOverlap(nm)
            /\ nm = Q_WhiteResinChairs =>
                  /\ resolved
                  /\ catalog[nlast.result.items[1][1]].name = ResinChair
                  /\ Overlap(nm, nlast.result.items[1][1]) = 3
            /\ nm = Q_Chairs => (~resolved /\ MaxOverlap(nm) = 1)
            /\ (nlast.op = "normalize_items" /\ ~resolved) => nlast.result = UnknownItem

\* C14 witness: "white resin chairs" was resolved to the resin chair in a
\* catalog that also holds a table with two of its tokens
C14_Witness ==
    /\ OneFuzzyName
    /\ nlast.op = "normalize_items"
    /\ InputEntries[1]["name"].s = Q_WhiteResinChairs
    /\ Cardinality(DOMAIN catalog) = 3
    /\ nlast.result.ok
    /\ nlast.result.items = << <<3, 3>> >>

\* the entry names an item: by an id of the catalog, or by a name that is a
\* catalog name or shares two tokens with one
Resolvable(it) ==
    \/ "id" \in DOMAIN it /\ InCatalog(it["id"], catalog)
    \/ /\ "name" \in DOMAIN it
       /\ (SameName(it["name"].s) # {} \/ MaxOverlap(it["name"].s) >= 2)

\* C15: the resolution fails with the unknown-item error when an entry of its
\* input names no item of the catalog, and a list it returns holds one
\* (id, qty) pair for each entry of the input: no entry is dropped, an item
\* given without a quantity neither.
C15_NoSilentDrop ==
    nlast.op \in {"normalize_items", "field_normalizations"} =>
        /\ (\E i \in 1..Len(InputEntries) : ~Resolvable(InputEntries[i])) =>
              (~nlast.result.ok /\ nlast.result = UnknownItem)
        /\ nlast.result.ok => Len(nlast.result.items) = Len(InputEntries)

\* main._normalize_items returned the empty list for an item given without a
\* quantity
C15_DroppedItem ==
    /\ nlast.op = "normalize_items"
    /\ DOMAIN nin.kv = {"item"}
    /\ nlast.result.ok
    /\ nlast.result.items = <<>>

\* the id the value identifies: a key of the catalog, 0 when it is none
IdOf(v) == IF InCatalog(v, catalog) THEN v.n ELSE 0

\* the item whose id the string spells, 0 when there is none
IdSpelled(nm) ==
    LET ids == {k \in DOMAIN catalog : Strip(nm) = UuidText(k)}
    IN  IF ids = {} THEN 0 ELSE CHOOSE k \in ids : TRUE

\* C16: an entry resolves by the first rule that applies: its id when the id is
\* one of the catalog; else the item of the same name, whatever the case; else
\* the item of the largest token overlap, when that is at least 2; else the
\* item whose id the raw name string equals.
C16_ResolutionOrder ==
    (nlast.op = "normalize_items" /\ nin.has_items /\ Len(nin.items) = 1) =>
        LET it == nin.items[1]
            byId == "id" \in DOMAIN it /\ IdOf(it["id"]) # 0
            named == "name" \in DOMAIN it
            nm == it["name"].s
            got == nlast.result.items[1][1]
        IN  /\ byId => (nlast.result.ok /\ got = IdOf(it["id"]))
            /\ (~byId /\ named /\ SameName(nm) # {}) => (nlast.result.ok /\ got \in SameName(nm))
            /\ (~byId /\ named /\ SameName(nm) = {} /\ MaxOverlap(nm) >= 2) =>
                  (nlast.result.ok /\ Overlap(nm, got) = MaxOverlap(nm))
            /\ (~byId /\ named /\ SameName(nm) = {} /\ MaxOverlap(nm) < 2 /\ IdSpelled(nm) # 0) =>
                  (nlast.result.ok /\ got = IdSpelled(nm))

\* main._normalize_items raised the unknown-item error on a name that is the
\* text of a catalog id
C16_RawIdRefused ==
    /\ nlast.op = "normalize_items"
    /\ nin.has_items
    /\ Len(nin.items) = 1
    /\ "name" \in DOMAIN nin.items[1]
    /\ IdSpelled(nin.items[1]["name"].s) # 0
    /\ nlast.result = UnknownItem

-----------------------------------------------------------------------------
(* The date normalisation as a state machine *)

\* datetime.now(tz): the days of one week, Monday to Sunday
Today == {Tuesday.ord - 1 + i : i \in 0..6}

\* "next <weekday>" as a caller's oracle writes it: plain, capitalised, padded
NextPlain(i) == NextPrefix \o WEEKDAYS[i]
NextCapital(i) == <<"N">> \o Tail(NextPrefix) \o <<UpperLetters[CHOOSE k \in 1..26 : LowerLetters[k] = Head(WEEKDAYS[i])]>> \o Tail(WEEKDAYS[i])
NextPadded(i) == <<" ">> \o NextPlain(i) \o <<" ">>

\* args.get("date"): a next-weekday string, a string that is none, an ISO date, None
DateStrings ==
    {StrV(NextPlain(i)) : i \in 1..7} \cup {StrV(NextCapital(i)) : i \in 1..7}
    \cup {StrV(NextPadded(i)) : i \in 1..7}
    \cup {StrV(<<"n", "e", "x", "t", " ", " ", "f", "r", "i", "d", "a", "y">>),
          StrV(<<"n", "e", "x", "t", " ", "w", "e", "e", "k">>),
          StrV(<<"f", "r", "i", "d", "a", "y">>),
          StrV(<<" ">>), DateV(Friday.ord), NoneV}

InitDates ==
    /\ InitSession
    /\ InitEngine
    /\ leads = <<>>
    /\ orders = <<>>
    /\ din \in [args : {NoArgs}, caller : {NoneV}, now : Today]
    /\ dlast = NoTurn
    /\ nin \in {Args([k \in {"date"} |-> ds], FALSE, <<>>) : ds \in DateStrings}
    /\ nlast = NoCall
    /\ InitTenantManager

\* _normalize_date(args.get("date")) on the day din.now
NormalizeDate ==
    /\ nlast' = [op |-> "normalize_date", result |-> normalize_date(Get(nin.kv, "date"), din.now)]
    /\ UNCHANGED <<leads, orders, din, dlast, nin>>
    /\ UNCHANGED wvars
    /\ UNCHANGED tvars
    /\ UNCHANGED pvars

\* utils.field_normalizations._normalize_date(args.get("date"))
FieldNormalizeDate ==
    /\ nlast' = [op |-> "fn_normalize_date", result |-> fn_normalize_date(Get(nin.kv, "date"), din.now)]
    /\ UNCHANGED <<leads, orders, din, dlast, nin>>
    /\ UNCHANGED wvars
    /\ UNCHANGED tvars
    /\ UNCHANGED pvars

NextDates == NormalizeDate \/ FieldNormalizeDate

SpecDates == InitDates /\ [][NextDates]_vars

-----------------------------------------------------------------------------
(* The date normalisation: claims *)

\* the date string is "next <weekday>" of the weekday numbered w, in any case
\* and with spaces around it
AsksNext(w) ==
    /\ Get(nin.kv, "date").t = "str"
    /\ Strip(Lower(Get(nin.kv, "date").s)) = NextPrefix \o WEEKDAYS[w + 1]

\* C21: for today's weekday t and target weekday w, 'next <weekday>' gives the
\* date d days after today with 1 <= d <= 7 and (t + d) mod 7 = w, no day
\* between today and it being a w: the first w strictly after today, a week
\* ahead when today is a w.
C21_NextWeekdayStrictlyAfter ==
    \A w \in 0..6 :
        (nlast.op \in {"normalize_date", "fn_normalize_date"} /\ AsksNext(w)) =>
            LET t == Weekday(IsoDate(din.now))
                d == nlast.result.date.ord - din.now
            IN  /\ nlast.result.ok /\ ~nlast.result.falsy
                /\ nlast.result.date.iso
                /\ 1 <= d /\ d <= 7
                /\ (t + d) % 7 = w
                /\ \A e \in 1..(d - 1) : (t + e) % 7 # w
                /\ (d = 7) = (t = w)

\* C21 witness: "Next Friday" asked on a Friday gives the Friday of the week after
C21_Witness ==
    /\ nlast.op = "normalize_date"
    /\ AsksNext(4)
    /\ Get(nin.kv, "date").s # NextPlain(5)
    /\ Weekday(IsoDate(din.now)) = 4
    /\ nlast.result.date = IsoDate(din.now + 7)

\* a string that is no "next <weekday>" is handed on as it is
NotNormalized ==
    /\ nlast.op = "normalize_date"
    /\ Get(nin.kv, "date").t = "str"
    /\ \A w \in 0..6 : ~AsksNext(w)
    /\ nlast.result.date = NotADate

-----------------------------------------------------------------------------
(* The tenant registry under HTTP requests, as a state machine *)

\* the X-Tenant and X-Caller-DID headers of a request
TenantHeaders ==
    {<<StrV(Acme), NoneV>>, <<StrV(Bolt), NoneV>>, <<StrV(Ghost), NoneV>>, <<NoneV, NoneV>>,
     <<NoneV, StrV(<<" ", "b", " ", "o", "l", "t", " ">>)>>}

\* the X-Admin-Key header: absent, the key, the key in another case
AdminKeys == {NoneV, StrV(ADMIN_API_KEY), StrV(<<"S", "3", "C", "R", "E", "T">>)}

AdminHeaders == {Headers(t[1], t[2], k) : t \in TenantHeaders, k \in AdminKeys}
PublicHeaders == {Headers(t[1], t[2], NoneV) : t \in TenantHeaders}

\* the bodies of the admin requests
CreateData == {[name |-> Table, daily_price |-> 1299, qty |-> IntV(7)]}
UpdateData == {[name |-> NoneV, daily_price |-> NoneV, qty |-> IntV(9)]}
ItemIdArgs == {UuidV(1), UuidV(3)}

\* the items of an availability or quote request
HttpItems == { << <<1, 2>> >>, << <<3, 1>> >> }

InitTenants == InitSession /\ InitEngine /\ InitRepo

\* the request was answered with r: what it left, and the count of the
\* engines constructed and the ids issued
Answered(op, h, args, r, issued) ==
    /\ cache' = r.cache
    /\ files' = r.files
    /\ loads' = [of |-> IF r.loaded
                        THEN [loads.of EXCEPT ![resolve_tenant_name(h).s] = @ + 1]
                        ELSE loads.of,
                 issued |-> issued]
    /\ tlast' = [op |-> op, headers |-> h, tenant |-> resolve_tenant_name(h),
                 args |-> args, status |-> r.status, body |-> r.body]
    /\ UNCHANGED wvars
    /\ UNCHANGED pvars
    /\ UNCHANGED dvars

AdminList ==
    \E h \in AdminHeaders :
        \E r \in {admin_list_inventory(cache, files, h)} :
            Answered("admin_list_inventory", h, <<>>, r, loads.issued)

AdminCreate ==
    /\ loads.issued < MaxItems
    /\ \E h \in AdminHeaders, data \in CreateData :
        \E r \in {admin_create_item(cache, files, h, data, loads.issued + 1)} :
            Answered("admin_create_item", h, <<data>>, r,
                     IF r.status = 200 THEN loads.issued + 1 ELSE loads.issued)

AdminUpdate ==
    \E h \in AdminHeaders, item_id \in ItemIdArgs, data \in UpdateData :
        \E r \in {admin_update_item(cache, files, h, item_id, data)} :
            Answered("admin_update_item", h, <<item_id, data>>, r, loads.issued)

AdminDelete ==
    \E h \in AdminHeaders, item_id \in ItemIdArgs :
        \E r \in {admin_delete_item(cache, files, h, item_id)} :
            Answered("admin_delete_item", h, <<item_id>>, r, loads.issued)

HttpCheckAvailability ==
    \E h \in PublicHeaders, req_items \in HttpItems :
        \E r \in {http_check_availability(cache, files, h, Tuesday, req_items)} :
            Answered("check_availability", h, req_items, r, loads.issued)

HttpQuote ==
    \E h \in PublicHeaders, req_items \in HttpItems :
        \E r \in {http_quote(cache, files, h, Tuesday, Zip91301, req_items)} :
            Answered("quote", h, req_items, r, loads.issued)

NextTenants ==
    \/ AdminList
    \/ AdminCreate
    \/ AdminUpdate
    \/ AdminDelete
    \/ HttpCheckAvailability
    \/ HttpQuote

SpecTenants == InitTenants /\ [][NextTenants]_vars

-----------------------------------------------------------------------------
(* The tenant registry: claims *)

AdminOps == {"admin_list_inventory", "admin_create_item", "admin_update_item", "admin_delete_item"}

\* the key a request supplies: the X-Admin-Key header, "" without one
SuppliedKey(h) == IF h.admin_key = NoneV THEN <<>> ELSE h.admin_key.s

\* C22: an admin request (list, create, update, delete) whose key differs from
\* the configured admin key is answered 401, whatever its tenant headers; it
\* loads no engine into the cache, changes no catalog and writes no file.
C22_UnauthorizedBeforeTenant ==
    [][(tlast'.op \in AdminOps /\ SuppliedKey(tlast'.headers) # ADMIN_API_KEY) =>
          /\ tlast'.status = 401
          /\ tlast'.body = AdminKeyRequired
          /\ cache' = cache
          /\ files' = files
          /\ loads' = loads]_vars

\* C22 witness: a create for a tenant whose engine was never loaded, under
\* the key in another case, was answered 401 and the cache is still empty
C22_Witness ==
    /\ tlast.op = "admin_create_item"
    /\ tlast.tenant = StrV(Acme)
    /\ tlast.headers.admin_key \notin {NoneV, StrV(ADMIN_API_KEY)}
    /\ tlast.status = 401
    /\ cache = NoEngines
    /\ files = TenantsDir

\* an unauthorized request for a tenant that has no file is answered 401 too
UnauthorizedUnknownTenant ==
    /\ tlast.op \in AdminOps
    /\ tlast.tenant = StrV(Ghost)
    /\ tlast.status = 401

\* the tenant names a request may carry
TenantNames == {Acme, Bolt, Ghost}

\* the request names a tenant that has no file, and is let through to get_engine
ForUnknownTenant(req) ==
    /\ req.tenant.t = "str"
    /\ req.tenant.s \notin DOMAIN TenantsDir
    /\ (req.op \in AdminOps => SuppliedKey(req.headers) = ADMIN_API_KEY)

\* C23: an engine is constructed for a tenant once, at the first get_engine
\* call for it, from the tenant's file, and stays in the cache; a request for
\* one tenant leaves the engine of every other tenant as it was; an
\* availability or pricing request is answered from the engine as the earlier
\* requests of the tenant left it; a request for a tenant without a file fails
\* and leaves the cache as it was.
C23_OneEnginePerTenant ==
    /\ [](/\ DOMAIN cache \subseteq DOMAIN TenantsDir
          /\ \A t \in TenantNames : loads.of[t] = (IF t \in DOMAIN cache THEN 1 ELSE 0))
    /\ [][\A t \in DOMAIN cache :
              /\ t \in DOMAIN cache'
              /\ tlast'.tenant # StrV(t) => cache'[t] = cache[t]]_vars
    /\ [][\A t \in DOMAIN cache' \ DOMAIN cache :
              /\ tlast'.tenant = StrV(t)
              /\ tlast'.op \in {"admin_list_inventory", "check_availability", "quote"} =>
                    cache'[t] = PricingEngine(files, t)]_vars
    /\ [][(tlast'.op \in {"check_availability", "quote"} /\ tlast'.tenant.s \in DOMAIN cache) =>
              LET eng == cache[tlast'.tenant.s]
                  sh == check_availability(eng.catalog, eng.blocks, Tuesday, tlast'.args)
              IN  /\ cache' = cache
                  /\ (tlast'.op = "check_availability" /\ tlast'.status = 200) =>
                        tlast'.body.shortages = sh.shortages
                  /\ (tlast'.op = "quote" /\ tlast'.status \in {200, 206}) =>
                        tlast'.body.priced = price(eng.cfg, eng.catalog, Tuesday, Zip91301, tlast'.args)]_vars
    /\ [][ForUnknownTenant(tlast') =>
              /\ tlast'.status = 500
              /\ tlast'.body.err = "FileNotFoundError"
              /\ cache' = cache
              /\ loads' = loads]_vars

\* C23 witness: an item created through an admin request of acme is available
\* to a later availability request of acme, and bolt's engine, loaded as well,
\* does not hold it
C23_Witness ==
    /\ tlast.op = "check_availability"
    /\ tlast.tenant = StrV(Acme)
    /\ tlast.args = << <<3, 1>> >>
    /\ tlast.status = 200
    /\ tlast.body.available
    /\ 3 \notin DOMAIN TenantsDir[Acme].catalog
    /\ Bolt \in DOMAIN cache
    /\ 3 \notin DOMAIN cache[Bolt].catalog
    /\ cache[Bolt] = PricingEngine(TenantsDir, Bolt)

\* a quote of acme after its chairs were raised to 9 by an admin update
QuotedAfterUpdate ==
    /\ tlast.op = "quote"
    /\ tlast.tenant = StrV(Acme)
    /\ tlast.args = << <<1, 2>> >>
    /\ tlast.status = 200
    /\ cache[Acme].catalog[1].qty = 9

\* a request for a tenant without a file, after the other engines were loaded
UnknownTenantFailed ==
    /\ ForUnknownTenant(tlast)
    /\ tlast.status = 500
    /\ DOMAIN cache = {Acme, Bolt}

-----------------------------------------------------------------------------
(* The /dialog turn handler: claims *)

\* thought.args or {} of the last turn
TurnArgs == ArgsOrEmpty(din.args)

\* what the dispatcher gives for the named tool on the last turn's args, engine,
\* clock and repo
Dispatched(name) ==
    run_tool(cfg, catalog, blocks, StrV(name), TurnArgs, din.now, dlast.leads, dlast.orders).result

\* the oracle was consulted and named a tool (not None, not the string "null")
NamedTool ==
    /\ dlast.oracle = "thought"
    /\ dlast.tool.t = "str"
    /\ dlast.tool.s # <<>>
    /\ Lower(dlast.tool.s) # T_null

\* the primary tool was check_availability and it reported available
CheckedAvailable ==
    /\ dlast.oracle = "thought"
    /\ dlast.tool = StrV(T_check_availability)
    /\ dlast.resp.tool_result.kind = "availability"
    /\ dlast.resp.tool_result.available

\* the args carry a date, a postal code
HasDate == "date" \in DOMAIN TurnArgs.kv
HasZip == "zip" \in DOMAIN TurnArgs.kv

ToolName == Strip(dlast.tool.s)

UnknownTool == ToolName \notin {T_check_availability, T_quote, T_create_lead, T_book}

MissingArgument ==
    \/ ToolName = T_check_availability /\ ~HasDate
    \/ ToolName = T_quote /\ (~HasDate \/ ~HasZip)

UnknownItemNamed ==
    /\ ToolName \in {T_check_availability, T_quote}
    /\ ~MissingArgument
    /\ \E i \in 1..Len(TurnArgs.items) : TurnArgs.items[i]["name"] = StrV(<<"t", "e", "n", "t">>)

OutOfServiceArea ==
    /\ ToolName = T_quote
    /\ HasDate
    /\ HasZip
    /\ TurnArgs.kv["zip"] = StrV(Zip10001)
    /\ ~UnknownItemNamed

LeadTurn == dlast.oracle = "thought" /\ dlast.tool = StrV(T_create_lead)

\* the text holds the characters, in a row
Contains(text, sub) ==
    \E i \in 1..(Len(text) + 1) :
        i + Len(sub) - 1 <= Len(text) /\ SubSeq(text, i, i + Len(sub) - 1) = sub

\* one lead was added under a new id that tool_result returns, with the name
\* and phone of the args or the defaults; the leads and orders there were are
\* as before; the turn answers 200 with tool create_lead; one email was sent
LeadCreated ==
    LET r == dlast.resp
        new == leads[Len(leads)]
        a == TurnArgs.kv
    IN  /\ Len(leads) = Len(dlast.leads) + 1
        /\ SubSeq(leads, 1, Len(dlast.leads)) = dlast.leads
        /\ \A i \in 1..Len(dlast.leads) : dlast.leads[i].lead_id # new.lead_id
        /\ orders = dlast.orders
        /\ r.tool_result = [ok |-> TRUE, kind |-> "lead", lead_id |-> new.lead_id]
        /\ new.name = (IF "name" \in DOMAIN a /\ a["name"].s # <<>> THEN a["name"]
                       ELSE StrV(<<"C", "a", "l", "l", "e", "r">>))
        /\ new.phone = (IF "phone" \in DOMAIN a THEN a["phone"]
                        ELSE IF "caller" \in DOMAIN a THEN a["caller"] ELSE StrV(<<>>))
        /\ r.kind = "reply" /\ r.status = 200
        /\ r.tool = StrV(T_create_lead)
        /\ Len(dlast.sent) = 1

\* json.dumps writes every character of the str as it is
Plain(str) == \A i \in 1..Len(str) : str[i] \notin {"\"", "\\"} \cup NonAscii

NoToolNamed ==
    /\ dlast.oracle = "thought"
    /\ dlast.tool \in {NoneV, StrV(T_null), StrV(<<"N", "u", "l", "l">>)}

FirstContact ==
    /\ dlast.msgs = "empty"
    /\ dlast.tool = StrV(T_create_lead)
    /\ dlast.resp.say = OPENING_GREETING
    /\ leads = <<>>

\* the oracle asked the caller instead of naming a tool
Clarified ==
    /\ dlast.oracle = "thought"
    /\ dlast.tool = NoneV
    /\ dlast.resp.say = Clarify

-----------------------------------------------------------------------------
(* The specifications *)

Init == InitSession /\ InitEngine /\ InitRepo

Spec == Init /\ [][Next]_vars

InitPricing == InitAnyEngine /\ InitRepo

SpecPricing == InitPricing /\ [][NextPricing]_vars

\* the session with its transcript
InitTranscript == InitSession /\ InitEngine /\ InitRepo

SpecTranscript == InitTranscript /\ [][NextTranscript]_vars

====
